---- MODULE Spec2Model ----
(***************************************************************************)
(* Model of the batched WhatsApp DOM monitor                               *)
(* (lexicon-frontend/src-tauri/injections/whatsapp_monitor.js, second      *)
(* IIFE, lines 404-950; organs/whatsapp_organ_monitor.js is the same       *)
(* harvester for the standalone browser).                                  *)
(*                                                                         *)
(* JavaScript strings are sequences of one-character strings, so that      *)
(* trim, substring, concatenation and the regular expressions of the scan  *)
(* code are computed and not assumed.  A missing attribute (null) and an   *)
(* empty one ("") are both <<>>: the code only tests them for truthiness.  *)
(* The wall-clock `timestamp' field of a record is not modelled, nor is    *)
(* the floating back button (ensureBackButton), which no selector of the   *)
(* harvester matches.                                                      *)
(***************************************************************************)
EXTENDS Integers, Sequences, FiniteSets, TLC

\* ------------------------------------------------------------------------
\* Bounds of the model
\* ------------------------------------------------------------------------
\* changes the page goes through over one session (elements added or
\* removed, chat switched)
MaxChanges == 3

\* sidebar rows of a page that is drawn before the harvester boots
MaxRows == 6

\* selectors the inspector submits to the debug query path
MaxQueries == 2

\* the subtree under #app: its depth, and the children of an inner element
MaxDepth == 7

MaxWidth == 21

\* ------------------------------------------------------------------------
\* Program constants
\* ------------------------------------------------------------------------
MAX_RETRIES == 180

\* ------------------------------------------------------------------------
\* Strings
\* ------------------------------------------------------------------------
Min(a, b) == IF a < b THEN a ELSE b

Rep(c, n) == [i \in 1..n |-> c]

DigitChars == <<"0", "1", "2", "3", "4", "5", "6", "7", "8", "9">>

IsDigit(c) == \E d \in 1..10 : DigitChars[d] = c

DigitVal(c) == (CHOOSE d \in 1..10 : DigitChars[d] = c) - 1

IsSpace(c) == c = " "

RECURSIVE trimStart(_)
trimStart(s) ==
  IF s = <<>> THEN s
  ELSE IF IsSpace(Head(s)) THEN trimStart(Tail(s)) ELSE s

RECURSIVE trimEnd(_)
trimEnd(s) ==
  IF s = <<>> THEN s
  ELSE IF IsSpace(s[Len(s)]) THEN trimEnd(SubSeq(s, 1, Len(s) - 1)) ELSE s

\* String.prototype.trim
trim(s) == trimEnd(trimStart(s))

\* String.prototype.substring(a, b) for 0 <= a <= b
substring(s, a, b) == SubSeq(s, Min(a, Len(s)) + 1, Min(b, Len(s)))

\* decimal rendering of a non-negative integer, as in '_' + i + '_'
RECURSIVE NumStr(_)
NumStr(n) ==
  IF n < 10 THEN <<DigitChars[n + 1]>>
  ELSE NumStr(n \div 10) \o <<DigitChars[(n % 10) + 1]>>

\* parseInt(st, 10) of a string of digits
RECURSIVE parseInt(_)
parseInt(s) ==
  IF s = <<>> THEN 0
  ELSE 10 * parseInt(SubSeq(s, 1, Len(s) - 1)) + DigitVal(s[Len(s)])

AllDigits(s) == \A k \in 1..Len(s) : IsDigit(s[k])

LowerOf(c) ==
  CASE c = "Y" -> "y" [] c = "E" -> "e" [] c = "S" -> "s" [] c = "T" -> "t"
    [] c = "R" -> "r" [] c = "D" -> "d" [] c = "A" -> "a" [] c = "P" -> "p"
    [] c = "M" -> "m" [] OTHER -> c

toLower(s) == [k \in 1..Len(s) |-> LowerOf(s[k])]

\* /^\d{1,2}:\d{2}/  (prefix match)
isTstp(s) ==
  \E n \in 1..2 :
    /\ Len(s) >= n + 3
    /\ AllDigits(SubSeq(s, 1, n))
    /\ s[n + 1] = ":"
    /\ AllDigits(SubSeq(s, n + 2, n + 3))

\* /^yesterday$/i
isYday(s) == toLower(s) = <<"y", "e", "s", "t", "e", "r", "d", "a", "y">>

\* /^\d{1,3}$/
isCount(s) == Len(s) \in 1..3 /\ AllDigits(s)

\* /^\d{1,2}:\d{2}(\s*(AM|PM))?$/i
isClock(s) ==
  \E n \in 1..2 :
    /\ Len(s) >= n + 3
    /\ AllDigits(SubSeq(s, 1, n))
    /\ s[n + 1] = ":"
    /\ AllDigits(SubSeq(s, n + 2, n + 3))
    /\ LET rest == trimStart(SubSeq(s, n + 4, Len(s)))
       IN rest = <<>> \/ toLower(rest) \in {<<"a", "m">>, <<"p", "m">>}

\* /^\d{1,2}\/\d{1,2}\/\d{2,4}$/
isDate(s) ==
  \E a \in 1..2, b \in 1..2, c \in 2..4 :
    /\ Len(s) = a + b + c + 2
    /\ AllDigits(SubSeq(s, 1, a))
    /\ s[a + 1] = "/"
    /\ AllDigits(SubSeq(s, a + 2, a + b + 1))
    /\ s[a + b + 2] = "/"
    /\ AllDigits(SubSeq(s, a + b + 3, a + b + c + 2))

\* (pp || '').match(/\]\s*(.+?):\s*$/), then m[1].trim(); <<>> when no match.
\* The colon must be the last non-blank character; the match starts at the
\* leftmost ']' that leaves at least one character before that colon.
senderOf(prePlain) ==
  LET s == trimEnd(prePlain)
      n == Len(s)
      starts == {k \in 1..n : s[k] = "]" /\ k <= n - 2}
  IN IF n = 0 \/ s[n] # ":" \/ starts = {} THEN <<>>
     ELSE LET k == CHOOSE m \in starts : \A o \in starts : m <= o
          IN trim(SubSeq(s, k + 1, n - 1))

\* ------------------------------------------------------------------------
\* The page (live DOM), as far as the harvester's selectors read it
\* ------------------------------------------------------------------------
sAl == <<"A", "l">>

sBo == <<"B", "o">>

sAlice == <<"A", "l", "i", "c", "e">>

sBob == <<"B", "o", "b">>

sHiThere == <<"H", "i", " ", "t", "h", "e", "r", "e">>

sClock == <<"1", "2", ":", "3", "0">>

\* 'header span[title]' elements in document order; inMain: under #main.
\* "none": no chat open.  "al": an over-long title, then the title "Al".
\* "bo": a header outside #main whose span has an empty title and text " Bo".
HeaderKinds ==
  [ none |-> <<>>,
    al   |-> << [inMain |-> TRUE, title |-> Rep("x", 120), text |-> <<>>],
                [inMain |-> TRUE, title |-> sAl, text |-> sAl] >>,
    bo   |-> << [inMain |-> FALSE, title |-> <<>>, text |-> <<" ">> \o sBo] >> ]

\* a data-id of the page that reads like the key scanSidebar derives for the
\* row alice ('sb_' + contact + '_' + preview): data-id is any string the
\* page chooses
sRowKey == <<"s", "b", "_">> \o sAlice \o <<"_">> \o sHiThere

\* A div.message-in element: its own data-id, the data-id of its closest
\* ancestor carrying one, its span.selectable-text (sel) and that span's
\* first inner span, its first span[dir], and the data-pre-plain-text of its
\* first descendant carrying one.
MsgKinds ==
  [ native |-> [dataId |-> sRowKey, ancId |-> <<>>,
                sel |-> TRUE, inner |-> TRUE,
                selText |-> <<" ", "h", "i", " ">>, innerText |-> <<" ", "h", "i", " ">>,
                dir |-> FALSE, dirText |-> <<>>,
                prePlain |-> <<"[", "t", "]", " ">> \o sBob \o <<":", " ">>],
    anc    |-> [dataId |-> <<>>, ancId |-> <<"m", "2">>,
                sel |-> FALSE, inner |-> FALSE, selText |-> <<>>, innerText |-> <<>>,
                dir |-> TRUE, dirText |-> <<"y", "o">>,
                prePlain |-> <<>>],
    derA   |-> [dataId |-> <<>>, ancId |-> <<>>,
                sel |-> TRUE, inner |-> FALSE,
                selText |-> Rep("a", 20) \o <<"x">>, innerText |-> <<>>,
                dir |-> FALSE, dirText |-> <<>>,
                prePlain |-> <<>>],
    derB   |-> [dataId |-> <<>>, ancId |-> <<>>,
                sel |-> TRUE, inner |-> FALSE,
                selText |-> Rep("a", 20) \o <<"y">>, innerText |-> <<>>,
                dir |-> TRUE, dirText |-> <<"z">>,
                prePlain |-> <<>>],
    blank  |-> [dataId |-> <<>>, ancId |-> <<>>,
                sel |-> TRUE, inner |-> TRUE,
                selText |-> <<" ", " ">>, innerText |-> <<" ", " ">>,
                dir |-> TRUE, dirText |-> <<"q">>,
                prePlain |-> <<>>],
    mute   |-> [dataId |-> sRowKey, ancId |-> <<>>,
                sel |-> FALSE, inner |-> FALSE, selText |-> <<>>, innerText |-> <<>>,
                dir |-> FALSE, dirText |-> <<>>,
                prePlain |-> <<>>] ]

sBye == <<"B", "y", "e", "!">>

\* A sidebar row: which selectors match it (class _ak8j, descendant of
\* #pane-side, role, data-testid cell-frame-container, tabindex -1), the
\* title attributes below it and its spans (trim-able text, offsetWidth).
RowKinds ==
  [ alice    |-> [ak8j |-> TRUE, inPane |-> FALSE, role |-> "", cellFrame |-> FALSE, tabindex |-> FALSE,
                  titles |-> <<sClock, sAlice>>,
                  spans |-> << [text |-> sAlice, width |-> 80],
                               [text |-> <<" ">> \o sHiThere, width |-> 120],
                               [text |-> <<"2">>, width |-> 20],
                               [text |-> sClock, width |-> 30] >>],
    bob      |-> [ak8j |-> FALSE, inPane |-> TRUE, role |-> "listitem", cellFrame |-> FALSE, tabindex |-> TRUE,
                  titles |-> <<sBob>>,
                  spans |-> << [text |-> sBob, width |-> 80],
                               [text |-> <<"Y", "o", "!">>, width |-> 120],
                               [text |-> <<"1", "/", "2", "/", "2", "6">>, width |-> 30] >>],
    tab      |-> [ak8j |-> FALSE, inPane |-> TRUE, role |-> "", cellFrame |-> FALSE, tabindex |-> TRUE,
                  titles |-> <<sAlice>>,
                  spans |-> << [text |-> sHiThere, width |-> 120],
                               [text |-> <<"Y", "e", "s", "t", "e", "r", "d", "a", "y">>, width |-> 40] >>],
    untitled |-> [ak8j |-> TRUE, inPane |-> FALSE, role |-> "row", cellFrame |-> TRUE, tabindex |-> FALSE,
                  titles |-> <<sClock, <<"A">>>>,
                  spans |-> << [text |-> sHiThere, width |-> 120] >>],
    aliceBye |-> [ak8j |-> TRUE, inPane |-> FALSE, role |-> "", cellFrame |-> FALSE, tabindex |-> FALSE,
                  titles |-> <<sClock, sAlice>>,
                  spans |-> << [text |-> sAlice, width |-> 80],
                               [text |-> sBye, width |-> 120],
                               [text |-> sClock, width |-> 30] >>],
    longA    |-> [ak8j |-> TRUE, inPane |-> FALSE, role |-> "", cellFrame |-> FALSE, tabindex |-> FALSE,
                  titles |-> <<sClock, sAlice>>,
                  spans |-> << [text |-> sAlice, width |-> 80],
                               [text |-> Rep("z", 50) \o <<"1">>, width |-> 120],
                               [text |-> sClock, width |-> 30] >>],
    longB    |-> [ak8j |-> TRUE, inPane |-> FALSE, role |-> "", cellFrame |-> FALSE, tabindex |-> FALSE,
                  titles |-> <<sClock, sAlice>>,
                  spans |-> << [text |-> sAlice, width |-> 80],
                               [text |-> Rep("z", 50) \o <<"2">>, width |-> 120],
                               [text |-> sClock, width |-> 30] >>] ]

\* the kinds of row a drawn sidebar is made of; the rows aliceBye, longA and
\* longB are the row alice with another preview
DrawnRowKinds == {"alice", "bob", "tab", "untitled"}

\* elements other than messages, rows and header spans that a selector of
\* the harvester can hit
OtherEls == {"pane-side", "chat-list", "message-out", "qr-canvas", "qr-testid"}

VARIABLES
  header,         \* DOM: key of HeaderKinds, the header spans now in the page
  msgs,           \* DOM: div.message-in elements in document order, [eid, k]
  rows,           \* DOM: sidebar row candidates in document order (keys of RowKinds)
  others,         \* DOM: subset of OtherEls present
  nextEl,         \* number of message elements created so far
  changes,        \* number of changes the page has gone through
  dclListener,    \* a DOMContentLoaded listener is registered and has not run
  mutQueue,       \* mutation records not yet delivered: "none", "noadd", "add"
  observers,      \* number of MutationObservers observing the page
  timers,         \* pending timeouts and armed intervals: [id, fn, kind]
  observerStarted,
  retryCount,
  debounce,       \* _debounce: 0 for null, else the id of the last debounce timeout
  seenMessages,
  seenSidebar,
  messageQueue,
  flushTimer,     \* 0 for null, else the id of the flush timeout
  relayed,        \* Relay boundary: the batches handed to fetch, in call order
  statuses,       \* Relay boundary: the status events handed to fetch, in call order
  emitted,        \* history: every queueMessage call, [rec, target, el, k, pos]:
                  \* the record, and the element (its eid, kind and position
                  \* among the candidates of the scan) it was made from
  probes,         \* history: number of readiness probes of the DOM
  ipcDclListener, \* the IPC monitor (first script of whatsapp_monitor.js):
  ipcTimers,      \*   its DOMContentLoaded listener, its pending timeout and
  ipcObserverStarted, \* armed intervals (names of the callbacks), and the
  ipcRetryCount,  \*   variables of its closure
  ipcSeenMessages,
  ipcSeenSidebar,
  ipcRelayed,     \* Relay boundary: the records handed to relayMessage, in call order
  ipcStatuses,    \* Relay boundary: the status events handed to relayStatus
  outcomes,       \* Relay boundary: the batch fetches that have settled,
                  \*   [batch (index in relayed), ok]
  pollsInFlight,  \* fetches of /whatsapp/debug/pending that await their response
  drained,        \* history: the selectors the poll callback has received
  queryResults,   \* Relay boundary: the QueryResults handed to fetch, in call order
  appTree,        \* DOM: the shape of the subtree under #app as sendDebugSnapshot
                  \*   walks it, [depth, width, last] (see AppTrees)
  snapshot,       \* Relay boundary: the last DebugSnapshot handed to fetch, if any,
                  \*   as a sequence of length 0 or 1
  warned,         \* console: sendDebugSnapshot has caught an exception and
                  \*   written its warning
  ws,             \* WebSocket client: readyState of the socket in ws ("none"
                  \*   while createWS has not been called)
  closed,
  retryMs,        \* in eighths of a millisecond (see ms)
  reconnectTimers, \* pending setTimeout(connect, retryMs) timeouts
  connected,      \* the page's flag, set by the onStatus callback
  opens,          \* history: number of open events
  closes,         \* history: number of close events
  sessions,       \* overlay page: the terminal sessions, [id, connected, page]
  activeSessionId, \* 0 for null
  pageCount,
  termSessionCounter,
  currentPage,
  chats,          \* WhatsApp widget: the chat list, [chat, contact, text,
                  \*   message_id, unread_count]
  messages,       \* the message view, [chat, contact, text, message_id]
  selectedChat,   \* "" for null
  view,           \* 'chats' | 'messages'
  loading,
  delivered       \* history: the events the widget has handled, each as the
                  \*   number of records of the batch, 0 for a WHATSAPP_MESSAGE

dom == <<header, msgs, rows, others, nextEl>>

page == <<dclListener, mutQueue, changes>>

harvester == <<observers, timers, observerStarted, retryCount, debounce,
               seenMessages, seenSidebar, messageQueue, flushTimer>>

relay == <<relayed, statuses>>

history == <<emitted, probes>>

ipc == <<ipcDclListener, ipcTimers, ipcObserverStarted, ipcRetryCount,
         ipcSeenMessages, ipcSeenSidebar, ipcRelayed, ipcStatuses>>

bridge == <<outcomes, pollsInFlight, drained, queryResults, appTree, snapshot, warned>>

client == <<ws, closed, retryMs, reconnectTimers, connected, opens, closes>>

overlay == <<sessions, activeSessionId, pageCount, termSessionCounter, currentPage>>

widget == <<chats, messages, selectedChat, view, loading, delivered>>

vars == <<dom, page, harvester, relay, history, ipc, bridge, client, overlay, widget>>

\* ------------------------------------------------------------------------
\* Timers: setTimeout / setInterval / clearTimeout
\* ------------------------------------------------------------------------
\* Timers are [fn, kind, id]; a handle is the id, told apart per callback
\* function: the n-th pending timer of a function has id n.  (Real handles
\* are never reused, but only equality of a stored handle with a pending
\* timer of the same function is observable.)
TimerIds(ts, fn) == {t.id : t \in {u \in ts : u.fn = fn}}

FreshId(ts, fn) ==
  CHOOSE n \in 1..(Cardinality(ts) + 1) :
    /\ n \notin TimerIds(ts, fn)
    /\ \A m \in 1..(n - 1) : m \in TimerIds(ts, fn)

setTimeout(ts, fn) == ts \cup {[fn |-> fn, kind |-> "timeout", id |-> FreshId(ts, fn)]}

setInterval(ts, fn) == ts \cup {[fn |-> fn, kind |-> "interval", id |-> FreshId(ts, fn)]}

clearTimeout(ts, fn, id) == {t \in ts : ~(t.fn = fn /\ t.id = id)}

\* the timer set after the callback of timer t has been taken off it
Fired(ts, t) == IF t.kind = "timeout" THEN ts \ {t} ELSE ts

\* ------------------------------------------------------------------------
\* The harvester's mutable state as one value, threaded through the scans:
\* [seenMessages, seenSidebar, messageQueue, flushTimer, timers, emitted]
\* ------------------------------------------------------------------------
Now ==
  [ seenMessages |-> seenMessages, seenSidebar |-> seenSidebar,
    messageQueue |-> messageQueue, flushTimer |-> flushTimer,
    timers |-> timers, emitted |-> emitted ]

\* queueMessage that arms a new timeout for every record and clears the one
\* that was pending (a debounce in place of a fixed window)
queueMessage_Postpone(h, data, src) ==
  LET pushed == [h EXCEPT !.messageQueue = Append(@, data),
                          !.emitted = Append(@, [rec |-> data] @@ src)]
      armed == setTimeout(pushed.timers, "flushQueue")
  IN [pushed EXCEPT !.flushTimer = FreshId(pushed.timers, "flushQueue"),
                    !.timers = clearTimeout(armed, "flushQueue", h.flushTimer)]

\* queueMessage that arms a timer for every record
queueMessage_AlwaysArm(h, data, src) ==
  [h EXCEPT !.messageQueue = Append(@, data),
            !.emitted = Append(@, [rec |-> data] @@ src),
            !.flushTimer = FreshId(h.timers, "flushQueue"),
            !.timers = setTimeout(@, "flushQueue")]

\* queueMessage with unshift in place of push
queueMessage_Unshift(h, data, src) ==
  LET pushed == [h EXCEPT !.messageQueue = <<data>> \o @,
                          !.emitted = Append(@, [rec |-> data] @@ src)]
  IN IF pushed.flushTimer = 0
       THEN [pushed EXCEPT !.flushTimer = FreshId(pushed.timers, "flushQueue"),
                           !.timers = setTimeout(@, "flushQueue")]
       ELSE pushed

\* queueMessage(data); src describes where the record came from (history)
queueMessage(h, data, src) ==
  LET pushed == [h EXCEPT !.messageQueue = Append(@, data),
                          !.emitted = Append(@, [rec |-> data] @@ src)]
  IN IF pushed.flushTimer = 0
       THEN [pushed EXCEPT !.flushTimer = FreshId(pushed.timers, "flushQueue"),
                           !.timers = setTimeout(@, "flushQueue")]
       ELSE pushed

\* ------------------------------------------------------------------------
\* SCAN: open chat (div.message-in)
\* ------------------------------------------------------------------------
validTitle(t) == Len(t) > 0 /\ Len(t) < 120

\* getCurrentChatName(); <<>> stands for null
getCurrentChatName(spans) ==
  LET main == {i \in 1..Len(spans) : spans[i].inMain /\ validTitle(spans[i].title)}
  IN IF main # {}
       THEN spans[CHOOSE i \in main : \A j \in main : i <= j].title
       ELSE IF spans = <<>> THEN <<>>
       ELSE LET fb == spans[1]
                ft == IF fb.title # <<>> THEN fb.title ELSE trim(fb.text)
            IN IF validTitle(ft) THEN ft ELSE <<>>

\* extractText(el); <<>> stands for null and for ''
extractText(el) ==
  IF el.sel
    THEN IF el.inner THEN trim(el.innerText) ELSE trim(el.selText)
    ELSE IF el.dir THEN trim(el.dirText) ELSE <<>>

\* nativeId that does not look at the ancestors
nativeId_OwnOnly(el) == el.dataId

\* el.getAttribute('data-id'), else that of el.closest('[data-id]')
nativeId(el) == IF el.dataId # <<>> THEN el.dataId ELSE el.ancId

\* 'p_' + chatName + '_' + i + '_' + rt.substring(0, 20)
derivedId(chatName, i, rt) ==
  <<"p", "_">> \o chatName \o <<"_">> \o NumStr(i) \o <<"_">> \o substring(rt, 0, 20)

\* what an iteration of scanOpenChat reads off a message element of each kind
MsgFacts ==
  [k \in DOMAIN MsgKinds |->
     [ id |-> nativeId(MsgKinds[k]),
       text |-> extractText(MsgKinds[k]),
       sender |-> senderOf(MsgKinds[k].prePlain) ]]

\* what getCurrentChatName() returns under each kind of header
ChatNames == [hk \in DOMAIN HeaderKinds |-> getCurrentChatName(HeaderKinds[hk])]

\* messageId that never looks at data-id
messageId_AlwaysDerived(k, chatName, i) == derivedId(chatName, i, MsgFacts[k].text)

\* the identity scanOpenChat gives the element of kind k at 0-based index i
messageId(k, chatName, i) ==
  IF MsgFacts[k].id # <<>> THEN MsgFacts[k].id ELSE derivedId(chatName, i, MsgFacts[k].text)

\* the record scanOpenChat queues for an element of kind k
messageRecord(k, chatName, dataId) ==
  [ contact |-> IF MsgFacts[k].sender # <<>> THEN MsgFacts[k].sender ELSE chatName,
    chat |-> chatName,
    text |-> MsgFacts[k].text,
    message_id |-> dataId ]

\* scanMessage without `if (seenMessages.has(dataId)) continue;'
scanMessage_NoSeenCheck(h, m, chatName, i) ==
  LET dataId == messageId(m.k, chatName, i)
  IN IF MsgFacts[m.k].text = <<>> THEN h
     ELSE queueMessage([h EXCEPT !.seenMessages = @ \cup {dataId}],
                       messageRecord(m.k, chatName, dataId),
                       [target |-> "openChat", el |-> m.eid, k |-> m.k, pos |-> i])

\* one iteration of the loop of scanOpenChat, for msgs[i] (0-based i)
scanMessage(h, m, chatName, i) ==
  LET dataId == messageId(m.k, chatName, i)
  IN IF MsgFacts[m.k].id = <<>> /\ MsgFacts[m.k].text = <<>> THEN h
     ELSE IF dataId \in h.seenMessages THEN h
     ELSE IF MsgFacts[m.k].text = <<>> THEN h
     ELSE queueMessage([h EXCEPT !.seenMessages = @ \cup {dataId}],
                       messageRecord(m.k, chatName, dataId),
                       [target |-> "openChat", el |-> m.eid, k |-> m.k, pos |-> i])

\* the loop of scanOpenChat from index i on; every iteration runs on the
\* state the one before has left (hn, bound to its value)
RECURSIVE scanOpenChatFrom(_, _, _, _)
scanOpenChatFrom(h, els, chatName, i) ==
  IF i >= Len(els) THEN h
  ELSE CHOOSE out \in {scanOpenChatFrom(hn, els, chatName, i + 1) :
                         hn \in {scanMessage(h, els[i + 1], chatName, i)}} : TRUE

\* scanOpenChat() without `if (!chatName) return;'
scanOpenChat_NoNameCheck(h, hdr, els) == scanOpenChatFrom(h, els, ChatNames[hdr], 0)

\* scanOpenChat() on the page with header spans hdr and message elements els
scanOpenChat(h, hdr, els) ==
  LET chatName == ChatNames[hdr]
  IN IF chatName = <<>> THEN h ELSE scanOpenChatFrom(h, els, chatName, 0)

\* ------------------------------------------------------------------------
\* SCAN: sidebar
\* ------------------------------------------------------------------------
Pick(rs, P(_)) == SelectSeq([i \in 1..Len(rs) |-> [k |-> rs[i], pos |-> i - 1]], P)

\* a fallback chain that keeps the last strategy with a match
sidebarItems_LastMatch(rs, oth) ==
  LET byClass(r) == RowKinds[r.k].ak8j
      byRole(r) == \/ RowKinds[r.k].inPane /\ RowKinds[r.k].role \in {"listitem", "row"}
                   \/ RowKinds[r.k].cellFrame
      byTab(r) == RowKinds[r.k].inPane /\ RowKinds[r.k].tabindex
  IN IF "pane-side" \in oth /\ Pick(rs, byTab) # <<>> THEN Pick(rs, byTab)
     ELSE IF Pick(rs, byRole) # <<>> THEN Pick(rs, byRole)
     ELSE Pick(rs, byClass)

\* the selector fallback chain of scanSidebar: the candidate rows, each with
\* its position among all row elements of the page
sidebarItems(rs, oth) ==
  LET byClass(r) == RowKinds[r.k].ak8j
      byRole(r) == \/ RowKinds[r.k].inPane /\ RowKinds[r.k].role \in {"listitem", "row"}
                   \/ RowKinds[r.k].cellFrame
      byTab(r) == RowKinds[r.k].inPane /\ RowKinds[r.k].tabindex
  IN IF Pick(rs, byClass) # <<>> THEN Pick(rs, byClass)
     ELSE IF Pick(rs, byRole) # <<>> THEN Pick(rs, byRole)
     ELSE IF "pane-side" \in oth THEN Pick(rs, byTab)
     ELSE <<>>

\* contact name: first [title] that is not a timestamp; <<>> for null
contactOf(item) ==
  LET ok == {t \in 1..Len(item.titles) :
               /\ Len(item.titles[t]) > 1
               /\ ~isTstp(item.titles[t])
               /\ ~isYday(item.titles[t])}
  IN IF ok = {} THEN <<>> ELSE item.titles[CHOOSE t \in ok : \A u \in ok : t <= u]

\* unread count: first narrow span holding 1..999
unreadOf(item) ==
  LET ok == {s \in 1..Len(item.spans) :
               /\ isCount(trim(item.spans[s].text))
               /\ item.spans[s].width < 40
               /\ parseInt(trim(item.spans[s].text)) > 0
               /\ parseInt(trim(item.spans[s].text)) < 1000}
  IN IF ok = {} THEN 0
     ELSE parseInt(trim(item.spans[CHOOSE s \in ok : \A u \in ok : s <= u].text))

\* preview: last meaningful span; <<>> for null
previewOf(item, contact) ==
  LET ok == {j \in 1..Len(item.spans) :
               LET pt == trim(item.spans[j].text)
               IN /\ ~(pt = <<>> \/ Len(pt) <= 2 \/ pt = contact)
                  /\ ~isClock(pt)
                  /\ ~isCount(pt)
                  /\ ~isYday(pt)
                  /\ ~isDate(pt)
                  /\ Len(pt) < 500}
  IN IF ok = {} THEN <<>>
     ELSE trim(item.spans[CHOOSE j \in ok : \A u \in ok : u <= j].text)

\* a key made of the whole preview
sidebarKey_WholePreview(contact, preview) ==
  <<"s", "b", "_">> \o contact \o <<"_">> \o preview

\* 'sb_' + contact + '_' + preview.substring(0, 50)
sidebarKey(contact, preview) ==
  <<"s", "b", "_">> \o contact \o <<"_">> \o substring(preview, 0, 50)

\* what an iteration of scanSidebar reads off a row of each kind
RowFacts ==
  [k \in DOMAIN RowKinds |->
     LET item == RowKinds[k]
         contact == contactOf(item)
         preview == previewOf(item, contact)
     IN [contact |-> contact, preview |-> preview,
         key |-> sidebarKey(contact, preview), unread |-> unreadOf(item)]]

\* scanRow that looks the key up in both SeenSets
scanRow_SharedSeen(h, r) ==
  LET contact == RowFacts[r.k].contact
      preview == RowFacts[r.k].preview
      key == RowFacts[r.k].key
  IN IF contact = <<>> THEN h
     ELSE IF preview = <<>> THEN h
     ELSE IF key \in h.seenSidebar \cup h.seenMessages THEN h
     ELSE queueMessage([h EXCEPT !.seenSidebar = @ \cup {key}],
                       [ contact |-> contact, chat |-> contact, text |-> preview,
                         message_id |-> key, unread_count |-> RowFacts[r.k].unread ],
                       [target |-> "sidebar", el |-> 0, k |-> r.k, pos |-> r.pos])

\* scanRow that keeps only the newest key in the SeenSet
scanRow_Evict(h, r) ==
  LET contact == RowFacts[r.k].contact
      preview == RowFacts[r.k].preview
      key == RowFacts[r.k].key
  IN IF contact = <<>> THEN h
     ELSE IF preview = <<>> THEN h
     ELSE IF key \in h.seenSidebar THEN h
     ELSE queueMessage([h EXCEPT !.seenSidebar = {key}],
                       [ contact |-> contact, chat |-> contact, text |-> preview,
                         message_id |-> key, unread_count |-> RowFacts[r.k].unread ],
                       [target |-> "sidebar", el |-> 0, k |-> r.k, pos |-> r.pos])

\* scanRow without `seenSidebar.add(key);'
scanRow_NoAdd(h, r) ==
  LET contact == RowFacts[r.k].contact
      preview == RowFacts[r.k].preview
      key == RowFacts[r.k].key
  IN IF contact = <<>> THEN h
     ELSE IF preview = <<>> THEN h
     ELSE IF key \in h.seenSidebar THEN h
     ELSE queueMessage(h,
                       [ contact |-> contact, chat |-> contact, text |-> preview,
                         message_id |-> key, unread_count |-> RowFacts[r.k].unread ],
                       [target |-> "sidebar", el |-> 0, k |-> r.k, pos |-> r.pos])

\* one iteration of the loop of scanSidebar
scanRow(h, r) ==
  LET contact == RowFacts[r.k].contact
      preview == RowFacts[r.k].preview
      key == RowFacts[r.k].key
  IN IF contact = <<>> THEN h
     ELSE IF preview = <<>> THEN h
     ELSE IF key \in h.seenSidebar THEN h
     ELSE queueMessage([h EXCEPT !.seenSidebar = @ \cup {key}],
                       [ contact |-> contact, chat |-> contact, text |-> preview,
                         message_id |-> key, unread_count |-> RowFacts[r.k].unread ],
                       [target |-> "sidebar", el |-> 0, k |-> r.k, pos |-> r.pos])

\* the loop of scanSidebar from index i on; every iteration runs on the
\* state the one before has left (hn, bound to its value)
RECURSIVE scanSidebarFrom(_, _, _)
scanSidebarFrom(h, items, i) ==
  IF i >= Len(items) THEN h
  ELSE CHOOSE out \in {scanSidebarFrom(hn, items, i + 1) :
                         hn \in {scanRow(h, items[i + 1])}} : TRUE

\* scanSidebar() on the page with row elements rs and other elements oth
scanSidebar(h, rs, oth) == scanSidebarFrom(h, sidebarItems(rs, oth), 0)

\* the harvester variables after the scans have run to completion
Commit(h) ==
  /\ seenMessages' = h.seenMessages
  /\ seenSidebar' = h.seenSidebar
  /\ messageQueue' = h.messageQueue
  /\ flushTimer' = h.flushTimer
  /\ timers' = h.timers
  /\ emitted' = h.emitted

\* ------------------------------------------------------------------------
\* Initial state: the script has just been injected and has run its boot code
\* ------------------------------------------------------------------------
Installed ==
  /\ changes = 0
  /\ mutQueue = "none"
  /\ observers = 0
  /\ \E readyState \in {"loading", "interactive", "complete"} :
       IF readyState = "loading"
         THEN dclListener = TRUE /\ timers = {}
         ELSE dclListener = FALSE /\ timers = setTimeout({}, "waitForWhatsApp")
  /\ observerStarted = FALSE
  /\ retryCount = 0
  /\ debounce = 0
  /\ seenMessages = {}
  /\ seenSidebar = {}
  /\ messageQueue = <<>>
  /\ flushTimer = 0
  /\ relayed = <<>>
  /\ statuses = <<>>
  /\ emitted = <<>>
  /\ probes = 0
  /\ outcomes = {}
  /\ pollsInFlight = 0
  /\ drained = <<>>
  /\ queryResults = <<>>
  /\ snapshot = <<>>
  /\ warned = FALSE

\* ... on a page that has no open chat yet
Injected ==
  /\ Installed
  /\ header = "none"
  /\ msgs = <<>>
  /\ nextEl = 0

\* an #app element without children
PlainApp == [depth |-> 0, width |-> 0, last |-> FALSE]

\* ... on a page that has no sidebar row yet
Boot == Injected /\ rows = <<>> /\ appTree = PlainApp

\* the IPC monitor is not part of the injected script (the organ's own
\* script, whatsapp_organ_monitor.js, is the batched monitor alone)
IpcAbsent ==
  /\ ipcDclListener = FALSE
  /\ ipcTimers = {}
  /\ ipcObserverStarted = FALSE
  /\ ipcRetryCount = 0
  /\ ipcSeenMessages = {}
  /\ ipcSeenSidebar = {}
  /\ ipcRelayed = <<>>
  /\ ipcStatuses = <<>>

\* the Lexicon window, with the WebSocket client of its page, is not open
ClientAbsent ==
  /\ ws = "none"
  /\ closed = FALSE
  /\ retryMs = 0
  /\ reconnectTimers = 0
  /\ connected = FALSE
  /\ opens = 0
  /\ closes = 0

\* the overlay page of the Lexicon window as its script leaves it, before
\* any terminal session exists
OverlayMounted ==
  /\ sessions = <<>>
  /\ activeSessionId = 0
  /\ pageCount = 3
  /\ termSessionCounter = 0
  /\ currentPage = 0

\* no WhatsApp widget is on the dashboard
WidgetAbsent ==
  /\ chats = <<>>
  /\ messages = <<>>
  /\ selectedChat = ""
  /\ view = "chats"
  /\ loading = TRUE
  /\ delivered = <<>>

WindowIdle == OverlayMounted /\ WidgetAbsent

\* a page that shows no QR code (a session that is already logged in)
Init == Boot /\ others = {} /\ IpcAbsent /\ ClientAbsent /\ WindowIdle

\* ------------------------------------------------------------------------
\* The page changes (scripts of the host page; not part of the harvester)
\* ------------------------------------------------------------------------
\* the kinds of element the page script creates
PageMsgKinds == {"native", "derA", "derB", "blank"}

PageHeaderKinds == {"none", "al", "bo"}

PageRowKinds == {"alice", "bob", "untitled"}

\* The page changes MaxChanges times: while it loads, before the first
\* readiness probe, and then once the harvester is Active or has given up
\* (SpecPoll below has the page change between any two probes).
DomMayChange ==
  /\ changes < MaxChanges
  /\ observerStarted \/ retryCount = 0 \/ retryCount > MAX_RETRIES

\* a mutation under the observed root queues a record for every observer
Record(kind) ==
  IF observers = 0 THEN mutQueue
  ELSE IF kind = "add" \/ mutQueue = "add" THEN "add" ELSE "noadd"

Mutated(kind) ==
  /\ changes' = changes + 1
  /\ \E seen \in BOOLEAN : mutQueue' = IF seen THEN Record(kind) ELSE mutQueue

InsertAt(s, i, e) == SubSeq(s, 1, i - 1) \o <<e>> \o SubSeq(s, i, Len(s))

RemoveAt(s, i) == SubSeq(s, 1, i - 1) \o SubSeq(s, i + 1, Len(s))

AddMessage ==
  /\ DomMayChange
  /\ \E k \in PageMsgKinds, i \in 1..(Len(msgs) + 1) :
       msgs' = InsertAt(msgs, i, [eid |-> nextEl + 1, k |-> k])
  /\ nextEl' = nextEl + 1
  /\ Mutated("add")
  /\ UNCHANGED <<header, rows, others, dclListener, harvester, relay, history, ipc, client, overlay, widget, bridge>>

RemoveMessage ==
  /\ DomMayChange
  /\ \E i \in 1..Len(msgs) : msgs' = RemoveAt(msgs, i)
  /\ Mutated("noadd")
  /\ UNCHANGED <<header, rows, others, nextEl, dclListener, harvester, relay, history, ipc, client, overlay, widget, bridge>>

SetHeader ==
  /\ DomMayChange
  /\ \E hk \in PageHeaderKinds \ {header} : header' = hk
  /\ Mutated(IF header' = "none" THEN "noadd" ELSE "add")
  /\ UNCHANGED <<msgs, rows, others, nextEl, dclListener, harvester, relay, history, ipc, client, overlay, widget, bridge>>

AddRow ==
  /\ DomMayChange
  /\ \E k \in PageRowKinds, i \in 1..(Len(rows) + 1) :
       /\ RowKinds[k].inPane => "pane-side" \in others
       /\ rows' = InsertAt(rows, i, k)
  /\ Mutated("add")
  /\ UNCHANGED <<header, msgs, others, nextEl, dclListener, harvester, relay, history, ipc, client, overlay, widget, bridge>>

RemoveRow ==
  /\ DomMayChange
  /\ \E i \in 1..Len(rows) : rows' = RemoveAt(rows, i)
  /\ Mutated("noadd")
  /\ UNCHANGED <<header, msgs, others, nextEl, dclListener, harvester, relay, history, ipc, client, overlay, widget, bridge>>

\* element e appears, or disappears (#pane-side together with the rows in it)
Toggle(e) ==
  /\ IF e \in others
       THEN /\ others' = others \ {e}
            /\ rows' = IF e = "pane-side"
                         THEN SelectSeq(rows, LAMBDA k : ~RowKinds[k].inPane)
                         ELSE rows
            /\ Mutated("noadd")
       ELSE /\ others' = others \cup {e}
            /\ rows' = rows
            /\ Mutated("add")
  /\ UNCHANGED <<header, msgs, nextEl, dclListener, harvester, relay, history, ipc, client, overlay, widget, bridge>>

TogglePane == DomMayChange /\ Toggle("pane-side")

\* the page while it loads: the QR code and the chat pane come and go
LoadingPageChanges ==
  /\ changes < MaxChanges
  /\ ~observerStarted
  /\ \E e \in {"qr-canvas", "pane-side"} : Toggle(e)

\* the page while it loads: the chat pane is drawn with a first row in it
PaneDrawnWithRow ==
  /\ changes < MaxChanges
  /\ ~observerStarted
  /\ "pane-side" \notin others
  /\ others' = others \cup {"pane-side"}
  /\ rows' = Append(rows, "bob")
  /\ Mutated("add")
  /\ UNCHANGED <<header, msgs, nextEl, dclListener, harvester, relay, history, ipc, client, overlay, widget, bridge>>

\* the page while it loads: the other parts of the chat view come and go, a
\* first sidebar row or a first message is drawn
MarkerAppears ==
  /\ changes < MaxChanges
  /\ ~observerStarted
  /\ \/ \E e \in {"chat-list", "message-out"} : Toggle(e)
     \/ /\ rows = <<>>
        /\ rows' = <<"alice">>
        /\ Mutated("add")
        /\ UNCHANGED <<header, msgs, others, nextEl, dclListener, harvester, relay, history, ipc, client, overlay, widget, bridge>>
     \/ /\ msgs = <<>>
        /\ msgs' = <<[eid |-> nextEl + 1, k |-> "native"]>>
        /\ nextEl' = nextEl + 1
        /\ Mutated("add")
        /\ UNCHANGED <<header, rows, others, dclListener, harvester, relay, history, ipc, client, overlay, widget, bridge>>

\* ------------------------------------------------------------------------
\* The harvester's callbacks.  A task (timer callback, DOM event) starts only
\* when no mutation record awaits delivery: observer callbacks are
\* microtasks and run before the next task.
\* ------------------------------------------------------------------------
TaskMayRun == mutQueue = "none"

\* document.addEventListener('DOMContentLoaded', ...) of the boot code
DOMContentLoaded ==
  /\ TaskMayRun
  /\ dclListener
  /\ dclListener' = FALSE
  /\ timers' = setTimeout(timers, "waitForWhatsApp")
  /\ UNCHANGED <<dom, mutQueue, changes, observers, observerStarted, retryCount, debounce,
                 seenMessages, seenSidebar, messageQueue, flushTimer, relay, history, ipc, client, overlay, widget, bridge>>

\* the readiness markers probed by waitForWhatsApp
loaded ==
  \/ "pane-side" \in others
  \/ \E i \in 1..Len(rows) : RowKinds[rows[i]].ak8j
  \/ "chat-list" \in others
  \/ msgs # <<>>
  \/ "message-out" \in others

qrVisible == "qr-canvas" \in others \/ "qr-testid" \in others

\* startObserver without its two setInterval backstops
startObserver_NoBackstop(ts) ==
  LET t3 == setInterval(ts, "sendDebugSnapshot")
      t4 == setInterval(t3, "pollSelectorQuery")
      h0 == [Now EXCEPT !.timers = t4]
  IN /\ observers' = observers + 1
     /\ observerStarted' = TRUE
     /\ statuses' = Append(statuses, "connected")
     /\ \E h1 \in {scanOpenChat(h0, header, msgs)} :
          \E h2 \in {scanSidebar(h1, rows, others)} : Commit(h2)

\* startObserver(), called by waitForWhatsApp whose timer set is ts
startObserver(ts) ==
  LET t1 == setInterval(ts, "scanSidebar")
      t2 == setInterval(t1, "scanOpenChat")
      t3 == setInterval(t2, "sendDebugSnapshot")
      t4 == setInterval(t3, "pollSelectorQuery")
      h0 == [Now EXCEPT !.timers = t4]
  IN /\ observers' = observers + 1
     /\ observerStarted' = TRUE
     /\ statuses' = Append(statuses, "connected")
     /\ \E h1 \in {scanOpenChat(h0, header, msgs)} :
          \E h2 \in {scanSidebar(h1, rows, others)} : Commit(h2)

\* waitForWhatsApp that gives up at retryCount >= MAX_RETRIES
waitForWhatsApp_GiveUpEarly(t) ==
  IF observerStarted
    THEN /\ timers' = Fired(timers, t)
         /\ UNCHANGED <<observers, observerStarted, retryCount, seenMessages, seenSidebar,
                        messageQueue, flushTimer, relay, history>>
  ELSE /\ retryCount' = retryCount + 1
       /\ IF retryCount' >= MAX_RETRIES
            THEN /\ statuses' = Append(statuses, "timeout")
                 /\ timers' = Fired(timers, t)
                 /\ UNCHANGED <<observers, observerStarted, seenMessages, seenSidebar,
                                messageQueue, flushTimer, relayed, history>>
          ELSE /\ probes' = probes + 1
               /\ IF loaded
                    THEN startObserver(Fired(timers, t))
                    ELSE /\ statuses' = IF qrVisible /\ retryCount' % 10 = 0
                                          THEN Append(statuses, "waiting_for_qr")
                                          ELSE statuses
                         /\ timers' = setTimeout(Fired(timers, t), "waitForWhatsApp")
                         /\ UNCHANGED <<observers, observerStarted, seenMessages, seenSidebar,
                                        messageQueue, flushTimer, emitted>>
               /\ UNCHANGED relayed

\* waitForWhatsApp that reports the QR code at every probe
waitForWhatsApp_QrEveryProbe(t) ==
  IF observerStarted
    THEN /\ timers' = Fired(timers, t)
         /\ UNCHANGED <<observers, observerStarted, retryCount, seenMessages, seenSidebar,
                        messageQueue, flushTimer, relay, history>>
  ELSE /\ retryCount' = retryCount + 1
       /\ IF retryCount' > MAX_RETRIES
            THEN /\ statuses' = Append(statuses, "timeout")
                 /\ timers' = Fired(timers, t)
                 /\ UNCHANGED <<observers, observerStarted, seenMessages, seenSidebar,
                                messageQueue, flushTimer, relayed, history>>
          ELSE /\ probes' = probes + 1
               /\ IF loaded
                    THEN startObserver(Fired(timers, t))
                    ELSE /\ statuses' = IF qrVisible
                                          THEN Append(statuses, "waiting_for_qr")
                                          ELSE statuses
                         /\ timers' = setTimeout(Fired(timers, t), "waitForWhatsApp")
                         /\ UNCHANGED <<observers, observerStarted, seenMessages, seenSidebar,
                                        messageQueue, flushTimer, emitted>>
               /\ UNCHANGED relayed

\* waitForWhatsApp that schedules a further probe when it gives up
waitForWhatsApp_RetryAfterTimeout(t) ==
  IF observerStarted
    THEN /\ timers' = Fired(timers, t)
         /\ UNCHANGED <<observers, observerStarted, retryCount, seenMessages, seenSidebar,
                        messageQueue, flushTimer, relay, history>>
  ELSE /\ retryCount' = retryCount + 1
       /\ IF retryCount' > MAX_RETRIES
            THEN /\ statuses' = Append(statuses, "timeout")
                 /\ timers' = setTimeout(Fired(timers, t), "waitForWhatsApp")
                 /\ UNCHANGED <<observers, observerStarted, seenMessages, seenSidebar,
                                messageQueue, flushTimer, relayed, history>>
          ELSE /\ probes' = probes + 1
               /\ IF loaded
                    THEN startObserver(Fired(timers, t))
                    ELSE /\ statuses' = IF qrVisible /\ retryCount' % 10 = 0
                                          THEN Append(statuses, "waiting_for_qr")
                                          ELSE statuses
                         /\ timers' = setTimeout(Fired(timers, t), "waitForWhatsApp")
                         /\ UNCHANGED <<observers, observerStarted, seenMessages, seenSidebar,
                                        messageQueue, flushTimer, emitted>>
               /\ UNCHANGED relayed

\* waitForWhatsApp that does not return once the observer has started and
\* schedules a further probe after startObserver()
waitForWhatsApp_ProbeOn(t) ==
  /\ retryCount' = retryCount + 1
  /\ IF retryCount' > MAX_RETRIES
       THEN /\ statuses' = Append(statuses, "timeout")
            /\ timers' = Fired(timers, t)
            /\ UNCHANGED <<observers, observerStarted, seenMessages, seenSidebar,
                           messageQueue, flushTimer, relayed, history>>
     ELSE /\ probes' = probes + 1
          /\ IF loaded
               THEN startObserver(setTimeout(Fired(timers, t), "waitForWhatsApp"))
               ELSE /\ statuses' = IF qrVisible /\ retryCount' % 10 = 0
                                     THEN Append(statuses, "waiting_for_qr")
                                     ELSE statuses
                    /\ timers' = setTimeout(Fired(timers, t), "waitForWhatsApp")
                    /\ UNCHANGED <<observers, observerStarted, seenMessages, seenSidebar,
                                   messageQueue, flushTimer, emitted>>
          /\ UNCHANGED relayed

\* waitForWhatsApp(), run as the callback of timeout t
waitForWhatsApp(t) ==
  IF observerStarted
    THEN /\ timers' = Fired(timers, t)
         /\ UNCHANGED <<observers, observerStarted, retryCount, seenMessages, seenSidebar,
                        messageQueue, flushTimer, relay, history>>
  ELSE /\ retryCount' = retryCount + 1
       /\ IF retryCount' > MAX_RETRIES
            THEN /\ statuses' = Append(statuses, "timeout")
                 /\ timers' = Fired(timers, t)
                 /\ UNCHANGED <<observers, observerStarted, seenMessages, seenSidebar,
                                messageQueue, flushTimer, relayed, history>>
          ELSE /\ probes' = probes + 1
               /\ IF loaded
                    THEN startObserver(Fired(timers, t))
                    ELSE /\ statuses' = IF qrVisible /\ retryCount' % 10 = 0
                                          THEN Append(statuses, "waiting_for_qr")
                                          ELSE statuses
                         /\ timers' = setTimeout(Fired(timers, t), "waitForWhatsApp")
                         /\ UNCHANGED <<observers, observerStarted, seenMessages, seenSidebar,
                                        messageQueue, flushTimer, emitted>>
               /\ UNCHANGED relayed

Probe ==
  /\ TaskMayRun
  /\ \E t \in timers :
       /\ t.fn = "waitForWhatsApp"
       /\ waitForWhatsApp(t)
  /\ UNCHANGED <<dom, page, debounce, ipc, client, overlay, widget, bridge>>

\* the observer callback without `clearTimeout(_debounce);'
ObserverCallback_NoClear ==
  /\ mutQueue # "none"
  /\ observers > 0
  /\ mutQueue' = "none"
  /\ IF mutQueue = "add"
       THEN /\ debounce' = FreshId(timers, "scanOpenChat")
            /\ timers' = setTimeout(timers, "scanOpenChat")
       ELSE UNCHANGED <<debounce, timers>>
  /\ UNCHANGED <<dom, dclListener, changes, observers, observerStarted, retryCount,
                 seenMessages, seenSidebar, messageQueue, flushTimer, relay, history, ipc, client, overlay, widget, bridge>>

\* the MutationObserver callback of startObserver
ObserverCallback ==
  /\ mutQueue # "none"
  /\ observers > 0
  /\ mutQueue' = "none"
  /\ IF mutQueue = "add"
       THEN LET ts == clearTimeout(timers, "scanOpenChat", debounce)
            IN /\ debounce' = FreshId(ts, "scanOpenChat")
               /\ timers' = setTimeout(ts, "scanOpenChat")
       ELSE UNCHANGED <<debounce, timers>>
  /\ UNCHANGED <<dom, dclListener, changes, observers, observerStarted, retryCount,
                 seenMessages, seenSidebar, messageQueue, flushTimer, relay, history, ipc, client, overlay, widget, bridge>>

\* scanOpenChat as the callback of the debounce timeout or of its interval
RunScanOpenChat(kind) ==
  /\ TaskMayRun
  /\ \E t \in timers :
       /\ t.fn = "scanOpenChat"
       /\ t.kind = kind
       /\ \E h \in {scanOpenChat([Now EXCEPT !.timers = Fired(timers, t)], header, msgs)} :
            Commit(h)
  /\ UNCHANGED <<dom, page, observers, observerStarted, retryCount, debounce, relay, probes, ipc, client, overlay, widget, bridge>>

\* the debounce timeout with scanSidebar as its callback
DebouncedScan_Sidebar ==
  /\ TaskMayRun
  /\ \E t \in timers :
       /\ t.fn = "scanOpenChat"
       /\ t.kind = "timeout"
       /\ \E h \in {scanSidebar([Now EXCEPT !.timers = Fired(timers, t)], rows, others)} :
            Commit(h)
  /\ UNCHANGED <<dom, page, observers, observerStarted, retryCount, debounce, relay, probes, ipc, client, overlay, widget, bridge>>

\* the debounce timeout fires: setTimeout(scanOpenChat, 300)
DebouncedScan == RunScanOpenChat("timeout")

IntervalScanOpenChat == RunScanOpenChat("interval")

\* scanSidebar as the callback of its interval
IntervalScanSidebar ==
  /\ TaskMayRun
  /\ \E t \in timers :
       /\ t.fn = "scanSidebar"
       /\ \E h \in {scanSidebar([Now EXCEPT !.timers = Fired(timers, t)], rows, others)} :
            Commit(h)
  /\ UNCHANGED <<dom, page, observers, observerStarted, retryCount, debounce, relay, probes, ipc, client, overlay, widget, bridge>>

\* flushQueue that hands every record to the relay in a call of its own
flushQueue_PerRecord(t) ==
  /\ flushTimer' = 0
  /\ timers' = Fired(timers, t)
  /\ relayed' = relayed \o [k \in DOMAIN messageQueue |-> <<messageQueue[k]>>]
  /\ messageQueue' = <<>>

\* flushQueue that schedules itself again
flushQueue_Reschedule(t) ==
  /\ flushTimer' = FreshId(Fired(timers, t), "flushQueue")
  /\ timers' = setTimeout(Fired(timers, t), "flushQueue")
  /\ IF Len(messageQueue) = 0
       THEN UNCHANGED <<messageQueue, relayed>>
       ELSE /\ relayed' = Append(relayed, messageQueue)
            /\ messageQueue' = <<>>

\* flushQueue that takes the batch after it has emptied the queue
flushQueue_SendAfterSwap(t) ==
  /\ flushTimer' = 0
  /\ timers' = Fired(timers, t)
  /\ IF Len(messageQueue) = 0
       THEN UNCHANGED <<messageQueue, relayed>>
       ELSE /\ messageQueue' = <<>>
            /\ relayed' = Append(relayed, messageQueue')

\* flushQueue without `messageQueue = [];'
flushQueue_NoClear(t) ==
  /\ flushTimer' = 0
  /\ timers' = Fired(timers, t)
  /\ IF Len(messageQueue) = 0
       THEN UNCHANGED <<messageQueue, relayed>>
       ELSE /\ relayed' = Append(relayed, messageQueue)
            /\ messageQueue' = messageQueue

\* flushQueue without `flushTimer = null;'
flushQueue_KeepHandle(t) ==
  /\ flushTimer' = flushTimer
  /\ timers' = Fired(timers, t)
  /\ IF Len(messageQueue) = 0
       THEN UNCHANGED <<messageQueue, relayed>>
       ELSE /\ relayed' = Append(relayed, messageQueue)
            /\ messageQueue' = <<>>

\* flushQueue(), run as the callback of timeout t
flushQueue(t) ==
  /\ flushTimer' = 0
  /\ timers' = Fired(timers, t)
  /\ IF Len(messageQueue) = 0
       THEN UNCHANGED <<messageQueue, relayed>>
       ELSE /\ relayed' = Append(relayed, messageQueue)
            /\ messageQueue' = <<>>

\* a flush that waits until every earlier batch fetch has settled
FlushTimerFires_AwaitsDelivery ==
  /\ TaskMayRun
  /\ DOMAIN relayed \subseteq {o.batch : o \in outcomes}
  /\ \E t \in timers :
       /\ t.fn = "flushQueue"
       /\ flushQueue(t)
  /\ UNCHANGED <<dom, page, observers, observerStarted, retryCount, debounce,
                 seenMessages, seenSidebar, statuses, history, ipc, client, overlay, widget, bridge>>

\* the flush timeout fires: setTimeout(flushQueue, FLUSH_INTERVAL)
FlushTimerFires ==
  /\ TaskMayRun
  /\ \E t \in timers :
       /\ t.fn = "flushQueue"
       /\ flushQueue(t)
  /\ UNCHANGED <<dom, page, observers, observerStarted, retryCount, debounce,
                 seenMessages, seenSidebar, statuses, history, ipc, client, overlay, widget, bridge>>

\* the fetch of a batch whose .catch queues the records again
BatchFetchSettles_Requeue ==
  /\ TaskMayRun
  /\ \E b \in DOMAIN relayed \ {o.batch : o \in outcomes}, ok \in BOOLEAN :
       /\ outcomes' = outcomes \cup {[batch |-> b, ok |-> ok]}
       /\ messageQueue' = IF ok THEN messageQueue ELSE relayed[b] \o messageQueue
  /\ UNCHANGED <<dom, page, observers, timers, observerStarted, retryCount, debounce,
                 seenMessages, seenSidebar, flushTimer, relay, history, ipc, client, overlay, widget,
                 pollsInFlight, drained, queryResults, appTree, snapshot, warned>>

\* the fetch of flushQueue settles, for a batch handed to it earlier: .then
\* and .catch write a line to the console and nothing else
BatchFetchSettles ==
  /\ TaskMayRun
  /\ \E b \in DOMAIN relayed \ {o.batch : o \in outcomes}, ok \in BOOLEAN :
       /\ outcomes' = outcomes \cup {[batch |-> b, ok |-> ok]}
       /\ messageQueue' = messageQueue
  /\ UNCHANGED <<dom, page, observers, timers, observerStarted, retryCount, debounce,
                 seenMessages, seenSidebar, flushTimer, relay, history, ipc, client, overlay, widget,
                 pollsInFlight, drained, queryResults, appTree, snapshot, warned>>

Next ==
  \/ AddMessage
  \/ RemoveMessage
  \/ SetHeader
  \/ AddRow
  \/ RemoveRow
  \/ TogglePane
  \/ DOMContentLoaded
  \/ Probe
  \/ ObserverCallback
  \/ DebouncedScan
  \/ IntervalScanOpenChat
  \/ IntervalScanSidebar
  \/ FlushTimerFires

Spec == Init /\ [][Next]_vars

\* the same, with the outcome of every batch fetch: delivered or failed
SpecDelivery == Init /\ [][Next \/ BatchFetchSettles]_vars

\* timers fire: an interval whose scan has something to do is not postponed
\* forever, and queued mutation records are delivered
FairSpec ==
  /\ Spec
  /\ WF_vars(IntervalScanOpenChat)
  /\ WF_vars(IntervalScanSidebar)
  /\ WF_vars(ObserverCallback)

\* timers fire: a pending flush timeout is not postponed forever, and queued
\* mutation records are delivered
FairFlush ==
  /\ Spec
  /\ WF_vars(FlushTimerFires)
  /\ WF_vars(ObserverCallback)

\* ------------------------------------------------------------------------
\* The boot of the harvester on a page that may show a QR code and whose
\* chat pane may appear at any probe, or never
\* ------------------------------------------------------------------------
InitPoll == Boot /\ others \in SUBSET {"qr-canvas"} /\ IpcAbsent /\ ClientAbsent /\ WindowIdle

NextPoll ==
  \/ LoadingPageChanges
  \/ PaneDrawnWithRow
  \/ DOMContentLoaded
  \/ Probe
  \/ IntervalScanOpenChat
  \/ IntervalScanSidebar

SpecPoll == InitPoll /\ [][NextPoll]_vars

\* timers fire: a pending timeout or event is not postponed forever
FairPoll == SpecPoll /\ WF_vars(Probe) /\ WF_vars(DOMContentLoaded)

\* ------------------------------------------------------------------------
\* The boot of the harvester on a page that is already drawn: up to MaxRows
\* sidebar rows of any kind, those of the chat pane inside #pane-side, and
\* no further change of the page
\* ------------------------------------------------------------------------
RowSeqs == UNION {[1..n -> DrawnRowKinds] : n \in 0..MaxRows}

InitDrawn ==
  /\ Injected
  /\ appTree = PlainApp
  /\ IpcAbsent
  /\ ClientAbsent /\ WindowIdle
  /\ others \in SUBSET {"pane-side"}
  /\ \E rs \in RowSeqs :
       /\ \A i \in 1..Len(rs) : RowKinds[rs[i]].inPane => "pane-side" \in others
       /\ rows = rs

NextDrawn ==
  \/ DOMContentLoaded
  \/ Probe
  \/ FlushTimerFires

SpecDrawn == InitDrawn /\ [][NextDrawn]_vars

\* ------------------------------------------------------------------------
\* The boot of the harvester on a page whose open chat is already drawn: any
\* header, up to MaxMsgs message elements of any kind, and no further change
\* of the page
\* ------------------------------------------------------------------------
MaxMsgs == 3

MsgSeqs == UNION {[1..n -> DOMAIN MsgKinds] : n \in 0..MaxMsgs}

InitChat ==
  /\ Installed
  /\ appTree = PlainApp
  /\ IpcAbsent
  /\ ClientAbsent /\ WindowIdle
  /\ rows = <<>>
  /\ others \in SUBSET {"pane-side"}
  /\ header \in DOMAIN HeaderKinds
  /\ \E ks \in MsgSeqs :
       /\ msgs = [i \in 1..Len(ks) |-> [eid |-> i, k |-> ks[i]]]
       /\ nextEl = Len(ks)

NextChat ==
  \/ DOMContentLoaded
  \/ Probe
  \/ IntervalScanOpenChat
  \/ FlushTimerFires

SpecChat == InitChat /\ [][NextChat]_vars

\* ------------------------------------------------------------------------
\* The boot of the harvester on a page whose sidebar holds one row of the
\* contact Alice, the preview of which changes MaxChanges times
\* ------------------------------------------------------------------------
PreviewRowKinds == {"alice", "aliceBye", "longA", "longB"}

InitPreview ==
  /\ Injected
  /\ appTree = PlainApp
  /\ IpcAbsent
  /\ ClientAbsent /\ WindowIdle
  /\ others = {}
  /\ \E k \in PreviewRowKinds : rows = <<k>>

\* the page replaces the preview span of a row
PreviewChanges ==
  /\ DomMayChange
  /\ \E i \in DOMAIN rows :
       \E k \in PreviewRowKinds \ {rows[i]} : rows' = [rows EXCEPT ![i] = k]
  /\ Mutated("add")
  /\ UNCHANGED <<header, msgs, others, nextEl, dclListener, harvester, relay, history, ipc, client, overlay, widget, bridge>>

NextPreview ==
  \/ PreviewChanges
  \/ DOMContentLoaded
  \/ Probe
  \/ ObserverCallback
  \/ DebouncedScan
  \/ IntervalScanSidebar
  \/ FlushTimerFires

SpecPreview == InitPreview /\ [][NextPreview]_vars

\* ------------------------------------------------------------------------
\* DEBUG: the selector query path.  Every second pollSelectorQuery asks the
\* Brain for a pending selector; the callback of the response runs the
\* selector against the document and posts a QueryResult.
\* ------------------------------------------------------------------------
\* the selectors an inspector asks about; 'div[' is not a valid selector
Selectors == {"._ak8j", "._ak8j span", "[role=listitem]", "div["}

validSelector(sel) == sel # "div["

\* the spans of row element i, each with the row and its place in the row
RowSpans(i) == [j \in 1..Len(RowKinds[rows[i]].spans) |-> [row |-> i, span |-> j]]

RECURSIVE SpansFrom(_)
SpansFrom(i) ==
  IF i > Len(rows) THEN <<>>
  ELSE (IF RowKinds[rows[i]].ak8j THEN RowSpans(i) ELSE <<>>) \o SpansFrom(i + 1)

\* document.querySelectorAll(sel): the elements in document order, a row
\* element as [row, span |-> 0]
querySelectorAll(sel) ==
  IF sel = "._ak8j span" THEN SpansFrom(1)
  ELSE LET hit(i) == IF sel = "._ak8j" THEN RowKinds[rows[i]].ak8j
                     ELSE RowKinds[rows[i]].role = "listitem"
       IN SelectSeq([i \in 1..Len(rows) |-> [row |-> i, span |-> 0]],
                    LAMBDA e : hit(e.row))

RECURSIVE textContent(_, _)
textContent(spans, j) ==
  IF j > Len(spans) THEN <<>> ELSE spans[j].text \o textContent(spans, j + 1)

\* the descriptor of an element: which element it is, and res.text
descriptor(e) ==
  LET spans == RowKinds[rows[e.row]].spans
      text == IF e.span = 0 THEN textContent(spans, 1) ELSE spans[e.span].text
  IN [row |-> e.row, span |-> e.span, text |-> substring(trim(text), 0, 100)]

\* the body of the QueryResult posted for a valid selector
queryResult(sel) ==
  LET els == querySelectorAll(sel)
  IN [ count |-> Len(els),
       results |-> [i \in 1..Min(Len(els), 20) |-> descriptor(els[i])],
       error |-> FALSE ]

\* the body posted from the catch block
queryError == [count |-> -1, results |-> <<>>, error |-> TRUE]

\* pollSelectorQuery(), the callback of its interval: the request is sent
PollSelectorQuery ==
  /\ TaskMayRun
  /\ \E t \in timers : t.fn = "pollSelectorQuery"
  /\ pollsInFlight < MaxQueries
  /\ pollsInFlight' = pollsInFlight + 1
  /\ UNCHANGED <<dom, page, harvester, relay, history, ipc, client, overlay, widget,
                 outcomes, drained, queryResults, appTree, snapshot, warned>>

\* the callback of the response, without its try and catch: the exception
\* of querySelectorAll ends in the .catch of the promise chain
PollSettles_NoCatch ==
  /\ TaskMayRun
  /\ pollsInFlight > 0
  /\ pollsInFlight' = pollsInFlight - 1
  /\ \E response \in {"rejected", "no selector"} \cup Selectors :
       IF response \in {"rejected", "no selector"}
         THEN UNCHANGED <<drained, queryResults>>
         ELSE /\ Len(drained) < MaxQueries
              /\ drained' = Append(drained, response)
              /\ queryResults' = IF validSelector(response)
                                   THEN Append(queryResults, queryResult(response))
                                   ELSE queryResults
  /\ UNCHANGED <<dom, page, harvester, relay, history, ipc, client, overlay, widget, outcomes, appTree, snapshot, warned>>

\* the callback of the response, with count: results.length
PollSettles_CountSent ==
  /\ TaskMayRun
  /\ pollsInFlight > 0
  /\ pollsInFlight' = pollsInFlight - 1
  /\ \E response \in {"rejected", "no selector"} \cup Selectors :
       IF response \in {"rejected", "no selector"}
         THEN UNCHANGED <<drained, queryResults>>
         ELSE /\ Len(drained) < MaxQueries
              /\ drained' = Append(drained, response)
              /\ queryResults' =
                   Append(queryResults,
                          IF validSelector(response)
                            THEN [queryResult(response) EXCEPT
                                    !.count = Len(queryResult(response).results)]
                            ELSE queryError)
  /\ UNCHANGED <<dom, page, harvester, relay, history, ipc, client, overlay, widget, outcomes, appTree, snapshot, warned>>

\* the response to a poll arrives: the fetch is rejected or its body is not
\* JSON (swallowed by .catch), or it holds no selector (return), or it holds
\* the pending selector, which the Brain has handed out
PollSettles ==
  /\ TaskMayRun
  /\ pollsInFlight > 0
  /\ pollsInFlight' = pollsInFlight - 1
  /\ \E response \in {"rejected", "no selector"} \cup Selectors :
       IF response \in {"rejected", "no selector"}
         THEN UNCHANGED <<drained, queryResults>>
         ELSE /\ Len(drained) < MaxQueries
              /\ drained' = Append(drained, response)
              /\ queryResults' =
                   Append(queryResults,
                          IF validSelector(response) THEN queryResult(response)
                          ELSE queryError)
  /\ UNCHANGED <<dom, page, harvester, relay, history, ipc, client, overlay, widget, outcomes, appTree, snapshot, warned>>

\* a page drawn before the boot whose sidebar rows are all of one kind
InitDebug ==
  /\ Injected
  /\ IpcAbsent
  /\ ClientAbsent /\ WindowIdle
  /\ appTree = PlainApp
  /\ others \in SUBSET {"pane-side"}
  /\ \E k \in DrawnRowKinds, n \in 0..MaxRows :
       /\ RowKinds[k].inPane /\ n > 0 => "pane-side" \in others
       /\ rows = [i \in 1..n |-> k]

NextDebug ==
  \/ DOMContentLoaded
  \/ Probe
  \/ IntervalScanOpenChat
  \/ IntervalScanSidebar
  \/ FlushTimerFires
  \/ PollSelectorQuery
  \/ PollSettles

SpecDebug == InitDebug /\ [][NextDebug]_vars

\* ------------------------------------------------------------------------
\* DEBUG: the DOM snapshot.  The subtree under #app is a spine of elements,
\* one at every depth from 0 to appTree.depth; an element of the spine above
\* its end has appTree.width child elements, of which the first (or, with
\* appTree.last, the last) is the next element of the spine and the others
\* have no children.  An element is [spine, d].
\* ------------------------------------------------------------------------
AppTrees ==
  {[depth |-> d, width |-> w, last |-> l] :
     d \in 0..MaxDepth, w \in 0..MaxWidth, l \in BOOLEAN}

\* el.children.length
childCount(el) == IF el.spine /\ el.d < appTree.depth THEN appTree.width ELSE 0

\* el.children[c - 1]
childAt(el, c) ==
  [spine |-> c = (IF appTree.last THEN appTree.width ELSE 1), d |-> el.d + 1]

\* maxChildren of snapshotNode at a depth
maxChildrenAt(depth) == IF depth < 2 THEN 20 ELSE IF depth < 4 THEN 10 ELSE 5

\* the null that snapshotNode returns, as a node
null == [tag |-> "null", children |-> <<>>, truncated |-> 0]

\* snapshotNode with one cap, 20, at every depth
RECURSIVE snapshotNode_OneCap(_, _)
snapshotNode_OneCap(el, depth) ==
  IF depth > 6 THEN null
  ELSE LET n == childCount(el)
           all == SelectSeq([c \in 1..n |-> snapshotNode_OneCap(childAt(el, c), depth + 1)],
                            LAMBDA child : child # null)
       IN [ tag |-> "div",
            children |-> IF depth < 6 THEN SubSeq(all, 1, Min(Len(all), 20)) ELSE <<>>,
            truncated |-> IF depth < 6 /\ n > 20 THEN n ELSE 0 ]

\* snapshotNode(el, depth) for an element; children <<>> and truncated 0 for
\* a node without that field
RECURSIVE snapshotNode(_, _)
snapshotNode(el, depth) ==
  IF depth > 6 THEN null
  ELSE LET n == childCount(el)
           all == SelectSeq([c \in 1..n |-> snapshotNode(childAt(el, c), depth + 1)],
                            LAMBDA child : child # null)
       IN [ tag |-> "div",
            children |-> IF depth < 6
                           THEN SubSeq(all, 1, Min(Len(all), maxChildrenAt(depth)))
                           ELSE <<>>,
            truncated |-> IF depth < 6 /\ n > maxChildrenAt(depth) THEN n ELSE 0 ]

\* buildScanReport(): the counts of the report
buildScanReport ==
  LET byClass == {i \in 1..Len(rows) : RowKinds[rows[i]].ak8j}
      byRole == {i \in 1..Len(rows) :
                   RowKinds[rows[i]].inPane /\ RowKinds[rows[i]].role \in {"listitem", "row"}}
  IN [ currentChat |-> ChatNames[header],
       sidebarCount |-> IF byClass # {} THEN Cardinality(byClass) ELSE Cardinality(byRole),
       messageCount |-> Len(msgs) ]

\* sendDebugSnapshot that builds its report by running the scans
SendDebugSnapshot_Scans ==
  /\ TaskMayRun
  /\ \E t \in timers : t.fn = "sendDebugSnapshot"
  /\ snapshot' = << [ snapshot |-> snapshotNode([spine |-> TRUE, d |-> 0], 0),
                      scan_report |-> buildScanReport ] >>
  /\ \E h1 \in {scanOpenChat(Now, header, msgs)} :
       \E h2 \in {scanSidebar(h1, rows, others)} : Commit(h2)
  /\ UNCHANGED <<dom, page, observers, observerStarted, retryCount, debounce, relay, probes,
                 ipc, client, overlay, widget, outcomes, pollsInFlight, drained, queryResults, appTree, warned>>

\* sendDebugSnapshot(), the callback of its interval: the snapshot and the
\* report are built and handed to fetch, or something on the way throws
\* (the calls go to objects of the host page) and the catch writes a warning
SendDebugSnapshot ==
  /\ TaskMayRun
  /\ \E t \in timers : t.fn = "sendDebugSnapshot"
  /\ \E thrown \in BOOLEAN :
       IF thrown
         THEN warned' = TRUE /\ UNCHANGED snapshot
         ELSE /\ snapshot' = << [ snapshot |-> snapshotNode([spine |-> TRUE, d |-> 0], 0),
                                  scan_report |-> buildScanReport ] >>
              /\ UNCHANGED warned
  /\ UNCHANGED <<dom, page, harvester, relay, history, ipc, client, overlay, widget,
                 outcomes, pollsInFlight, drained, queryResults, appTree>>

\* the harvester with both debug paths, on a logged-in page whose sidebar
\* gets its first row at any time
InitBridge == Boot /\ others = {"pane-side"} /\ IpcAbsent /\ ClientAbsent /\ WindowIdle

\* the page draws the first row of the sidebar
FirstRowDrawn == rows = <<>> /\ AddRow

NextBridge ==
  \/ FirstRowDrawn
  \/ DOMContentLoaded
  \/ Probe
  \/ ObserverCallback
  \/ DebouncedScan
  \/ IntervalScanOpenChat
  \/ IntervalScanSidebar
  \/ FlushTimerFires
  \/ PollSelectorQuery
  \/ PollSettles
  \/ SendDebugSnapshot

SpecBridge == InitBridge /\ [][NextBridge]_vars

\* the harvester with its debug snapshot on a page whose sidebar is already
\* drawn and no longer changes
NextReport ==
  \/ DOMContentLoaded
  \/ Probe
  \/ IntervalScanSidebar
  \/ FlushTimerFires
  \/ SendDebugSnapshot

SpecReport == InitDrawn /\ [][NextReport]_vars

\* a logged-in page with any subtree under #app
InitSnapshot ==
  /\ Injected
  /\ IpcAbsent
  /\ ClientAbsent /\ WindowIdle
  /\ rows = <<>>
  /\ others = {"pane-side"}
  /\ appTree \in AppTrees

NextSnapshot ==
  \/ DOMContentLoaded
  \/ Probe
  \/ SendDebugSnapshot

SpecSnapshot == InitSnapshot /\ [][NextSnapshot]_vars

\* ------------------------------------------------------------------------
\* The IPC monitor: the first script of injections/whatsapp_monitor.js, which
\* hands every record to relayMessage as it finds it.  Its scans are those
\* of the batched monitor but for the prefix and length of a derived id.
\* ------------------------------------------------------------------------
\* 'pos_' + chatName + '_' + i + '_' + rawText.substring(0, 30)
ipcDerivedId(chatName, i, rawText) ==
  <<"p", "o", "s", "_">> \o chatName \o <<"_">> \o NumStr(i) \o <<"_">>
    \o substring(rawText, 0, 30)

\* the closure of the IPC monitor as a record
IpcNow ==
  [seenMessages |-> ipcSeenMessages, seenSidebar |-> ipcSeenSidebar, relayed |-> ipcRelayed]

\* one iteration of the loop of the IPC monitor's scanOpenChat
ipcScanMessage(c, m, chatName, i) ==
  LET dataId == IF MsgFacts[m.k].id # <<>> THEN MsgFacts[m.k].id
                ELSE ipcDerivedId(chatName, i, MsgFacts[m.k].text)
  IN IF MsgFacts[m.k].id = <<>> /\ MsgFacts[m.k].text = <<>> THEN c
     ELSE IF dataId \in c.seenMessages THEN c
     ELSE IF MsgFacts[m.k].text = <<>> THEN c
     ELSE [c EXCEPT !.seenMessages = @ \cup {dataId},
                    !.relayed = Append(@, messageRecord(m.k, chatName, dataId))]

RECURSIVE ipcScanOpenChatFrom(_, _, _, _)
ipcScanOpenChatFrom(c, els, chatName, i) ==
  IF i >= Len(els) THEN c
  ELSE ipcScanOpenChatFrom(ipcScanMessage(c, els[i + 1], chatName, i), els, chatName, i + 1)

ipcScanOpenChat(c, hdr, els) ==
  LET chatName == ChatNames[hdr]
  IN IF chatName = <<>> THEN c ELSE ipcScanOpenChatFrom(c, els, chatName, 0)

\* one iteration of the loop of the IPC monitor's scanSidebar
ipcScanRow(c, r) ==
  LET item == RowKinds[r.k]
      contact == contactOf(item)
      preview == previewOf(item, contact)
      key == sidebarKey(contact, preview)
  IN IF contact = <<>> THEN c
     ELSE IF preview = <<>> THEN c
     ELSE IF key \in c.seenSidebar THEN c
     ELSE [c EXCEPT !.seenSidebar = @ \cup {key},
                    !.relayed = Append(@, [ contact |-> contact, chat |-> contact,
                                            text |-> preview, message_id |-> key,
                                            unread_count |-> unreadOf(item) ])]

RECURSIVE ipcScanSidebarFrom(_, _, _)
ipcScanSidebarFrom(c, items, i) ==
  IF i >= Len(items) THEN c
  ELSE ipcScanSidebarFrom(ipcScanRow(c, items[i + 1]), items, i + 1)

ipcScanSidebar(c, rs, oth) == ipcScanSidebarFrom(c, sidebarItems(rs, oth), 0)

IpcCommit(c) ==
  /\ ipcSeenMessages' = c.seenMessages
  /\ ipcSeenSidebar' = c.seenSidebar
  /\ ipcRelayed' = c.relayed

\* `loaded' of the IPC monitor.  querySelector('_ak8j'), ('message-in') and
\* ('message-out') are type selectors: they match elements whose tag name is
\* _ak8j, message-in or message-out, and the rows and messages of the page
\* are div elements with these classes.
ipcLoaded ==
  \/ "pane-side" \in others
  \/ FALSE
  \/ "chat-list" \in others
  \/ FALSE
  \/ FALSE

\* startObserver() of the IPC monitor
ipcStartObserver ==
  /\ ipcObserverStarted' = TRUE
  /\ ipcStatuses' = Append(ipcStatuses, "connected")
  /\ ipcTimers' = (ipcTimers \ {"waitForWhatsApp"}) \cup {"scanSidebar", "scanOpenChat"}
  /\ IpcCommit(ipcScanSidebar(ipcScanOpenChat(IpcNow, header, msgs), rows, others))

\* waitForWhatsApp() of the IPC monitor, run as a timeout callback
ipcWaitForWhatsApp ==
  IF ipcObserverStarted
    THEN /\ ipcTimers' = ipcTimers \ {"waitForWhatsApp"}
         /\ UNCHANGED <<ipcObserverStarted, ipcRetryCount, ipcSeenMessages, ipcSeenSidebar,
                        ipcRelayed, ipcStatuses>>
  ELSE /\ ipcRetryCount' = ipcRetryCount + 1
       /\ IF ipcRetryCount' > MAX_RETRIES
            THEN /\ ipcStatuses' = Append(ipcStatuses, "timeout")
                 /\ ipcTimers' = ipcTimers \ {"waitForWhatsApp"}
                 /\ UNCHANGED <<ipcObserverStarted, ipcSeenMessages, ipcSeenSidebar, ipcRelayed>>
          ELSE IF ipcLoaded
            THEN ipcStartObserver
          ELSE /\ ipcStatuses' = IF qrVisible /\ ipcRetryCount' % 10 = 0
                                    THEN Append(ipcStatuses, "waiting_for_qr")
                                    ELSE ipcStatuses
               /\ ipcTimers' = ipcTimers
               /\ UNCHANGED <<ipcObserverStarted, ipcSeenMessages, ipcSeenSidebar, ipcRelayed>>

IpcDOMContentLoaded ==
  /\ ipcDclListener
  /\ ipcDclListener' = FALSE
  /\ ipcTimers' = ipcTimers \cup {"waitForWhatsApp"}
  /\ UNCHANGED <<dom, page, harvester, relay, history, bridge, client, overlay, widget, ipcObserverStarted, ipcRetryCount,
                 ipcSeenMessages, ipcSeenSidebar, ipcRelayed, ipcStatuses>>

IpcProbe ==
  /\ "waitForWhatsApp" \in ipcTimers
  /\ ipcWaitForWhatsApp
  /\ UNCHANGED <<dom, page, harvester, relay, history, bridge, client, overlay, widget, ipcDclListener>>

IpcIntervalScanOpenChat ==
  /\ "scanOpenChat" \in ipcTimers
  /\ IpcCommit(ipcScanOpenChat(IpcNow, header, msgs))
  /\ UNCHANGED <<dom, page, harvester, relay, history, bridge, client, overlay, widget, ipcDclListener, ipcTimers,
                 ipcObserverStarted, ipcRetryCount, ipcStatuses>>

IpcIntervalScanSidebar ==
  /\ "scanSidebar" \in ipcTimers
  /\ IpcCommit(ipcScanSidebar(IpcNow, rows, others))
  /\ UNCHANGED <<dom, page, harvester, relay, history, bridge, client, overlay, widget, ipcDclListener, ipcTimers,
                 ipcObserverStarted, ipcRetryCount, ipcStatuses>>

\* the page loads until the IPC monitor has found it loaded
IpcLoadingPageChanges == ~ipcObserverStarted /\ (LoadingPageChanges \/ MarkerAppears)

\* the IPC monitor alone has just booted on a page that may show a QR code
InitIpc ==
  /\ header = "none" /\ msgs = <<>> /\ rows = <<>> /\ nextEl = 0
  /\ others \in SUBSET {"qr-canvas"}
  /\ changes = 0 /\ mutQueue = "none" /\ dclListener = FALSE
  /\ observers = 0 /\ timers = {} /\ observerStarted = FALSE /\ retryCount = 0
  /\ debounce = 0 /\ seenMessages = {} /\ seenSidebar = {}
  /\ messageQueue = <<>> /\ flushTimer = 0
  /\ relayed = <<>> /\ statuses = <<>> /\ emitted = <<>> /\ probes = 0
  /\ outcomes = {} /\ pollsInFlight = 0 /\ drained = <<>> /\ queryResults = <<>>
  /\ appTree = PlainApp /\ snapshot = <<>> /\ warned = FALSE
  /\ ClientAbsent /\ WindowIdle
  /\ \E readyState \in {"loading", "interactive", "complete"} :
       IF readyState = "loading"
         THEN ipcDclListener = TRUE /\ ipcTimers = {}
         ELSE ipcDclListener = FALSE /\ ipcTimers = {"waitForWhatsApp"}
  /\ ipcObserverStarted = FALSE /\ ipcRetryCount = 0
  /\ ipcSeenMessages = {} /\ ipcSeenSidebar = {}
  /\ ipcRelayed = <<>> /\ ipcStatuses = <<>>

NextIpc ==
  \/ IpcLoadingPageChanges
  \/ IpcDOMContentLoaded
  \/ IpcProbe
  \/ IpcIntervalScanOpenChat
  \/ IpcIntervalScanSidebar

SpecIpc == InitIpc /\ [][NextIpc]_vars

\* ------------------------------------------------------------------------
\* The WebSocket client of the Lexicon window ($lib/ws.js): createWS opens a
\* socket to the Brain and reconnects after every close until close() is
\* called.  retryMs goes through 2000 * 1.5^n, which has fractions of a
\* millisecond (15187.5, 22781.25, 34171.875): the model keeps it in eighths
\* of a millisecond, where every value the code computes is an integer.
\* ------------------------------------------------------------------------
MaxCloses == 8

ms(n) == 8 * n

\* the state when createWS returns: closed = false, retryMs = 2000, and the
\* first connect() has made the socket
createWS ==
  /\ ws = "CONNECTING"
  /\ closed = FALSE
  /\ retryMs = ms(2000)
  /\ reconnectTimers = 0
  /\ connected = FALSE
  /\ opens = 0
  /\ closes = 0

\* connect() without `if (closed) return;'
connect_NoClosedCheck ==
  /\ reconnectTimers > 0
  /\ reconnectTimers' = reconnectTimers - 1
  /\ ws' = "CONNECTING"
  /\ UNCHANGED <<closed, retryMs, connected, opens, closes>>
  /\ UNCHANGED <<dom, page, harvester, relay, history, ipc, bridge, overlay, widget>>

\* the reconnect timeout fires: connect()
connect ==
  /\ reconnectTimers > 0
  /\ reconnectTimers' = reconnectTimers - 1
  /\ IF closed THEN UNCHANGED ws ELSE ws' = "CONNECTING"
  /\ UNCHANGED <<closed, retryMs, connected, opens, closes>>
  /\ UNCHANGED <<dom, page, harvester, relay, history, ipc, bridge, overlay, widget>>

\* ws.onopen
onopen ==
  /\ ws = "CONNECTING"
  /\ ws' = "OPEN"
  /\ retryMs' = ms(2000)
  /\ connected' = TRUE
  /\ opens' = opens + 1
  /\ UNCHANGED <<closed, reconnectTimers, closes>>
  /\ UNCHANGED <<dom, page, harvester, relay, history, ipc, bridge, overlay, widget>>

onclose_NoCap ==
  /\ ws \in {"CONNECTING", "OPEN", "CLOSING"}
  /\ closes < MaxCloses
  /\ ws' = "CLOSED"
  /\ connected' = FALSE
  /\ reconnectTimers' = IF closed THEN reconnectTimers ELSE reconnectTimers + 1
  /\ retryMs' = (retryMs * 3) \div 2
  /\ closes' = closes + 1
  /\ UNCHANGED <<closed, opens>>
  /\ UNCHANGED <<dom, page, harvester, relay, history, ipc, bridge, overlay, widget>>

\* ws.onclose: the socket has closed, or the connection could not be made
onclose ==
  /\ ws \in {"CONNECTING", "OPEN", "CLOSING"}
  /\ closes < MaxCloses
  /\ ws' = "CLOSED"
  /\ connected' = FALSE
  /\ reconnectTimers' = IF closed THEN reconnectTimers ELSE reconnectTimers + 1
  /\ retryMs' = Min((retryMs * 3) \div 2, ms(30000))
  /\ closes' = closes + 1
  /\ UNCHANGED <<closed, opens>>
  /\ UNCHANGED <<dom, page, harvester, relay, history, ipc, bridge, overlay, widget>>

\* the close() of the returned object (the page's onDestroy)
close ==
  /\ ws # "none"
  /\ closed' = TRUE
  /\ ws' = IF ws \in {"CONNECTING", "OPEN"} THEN "CLOSING" ELSE ws
  /\ UNCHANGED <<retryMs, reconnectTimers, connected, opens, closes>>
  /\ UNCHANGED <<dom, page, harvester, relay, history, ipc, bridge, overlay, widget>>

InitWS == Boot /\ others = {} /\ IpcAbsent /\ createWS /\ WindowIdle

NextWS ==
  \/ connect
  \/ onopen
  \/ onclose
  \/ close

SpecWS == InitWS /\ [][NextWS]_vars

\* ------------------------------------------------------------------------
\* The overlay page of the Lexicon window (+page.svelte): every terminal
\* session occupies a full page of the canvas below the landing page.  A
\* session is [id, page]; its id is 'sh-' + time + '-' + termSessionCounter,
\* of which the counter tells the sessions apart.  The operations below leave
\* shellName and connected of a session alone.  scrollTop of the canvas is
\* counted in half pages.
\* ------------------------------------------------------------------------
MaxSpawns == 4

MaxPages == 7

\* sessionForPage(pageIdx): the id of the first session on the page, 0 for null
sessionForPage(ss, pageIdx) ==
  LET hit == {i \in DOMAIN ss : ss[i].page = pageIdx}
  IN IF hit = {} THEN 0 ELSE ss[CHOOSE i \in hit : \A j \in hit : i <= j].id

\* findNextFreePage that starts its search at page 0
findNextFreePage_FromZero(ss, pc) ==
  LET usedPages == {ss[i].page : i \in DOMAIN ss}
      free == {p \in 0..(pc + 1) : p \notin usedPages}
  IN IF free # {} THEN CHOOSE p \in free : \A q \in free : p <= q ELSE pc

\* findNextFreePage(): the first page from 1 to pageCount + 1 that no session
\* occupies, else pageCount
findNextFreePage(ss, pc) ==
  LET usedPages == {ss[i].page : i \in DOMAIN ss}
      free == {p \in 1..(pc + 1) : p \notin usedPages}
  IN IF free # {} THEN CHOOSE p \in free : \A q \in free : p <= q ELSE pc

\* spawnSession(), with the scrollToPage(page) it defers to the next tick
spawnSession ==
  /\ termSessionCounter < MaxSpawns
  /\ termSessionCounter' = termSessionCounter + 1
  /\ LET pg == findNextFreePage(sessions, pageCount)
     IN /\ pageCount' = IF pg >= pageCount THEN pg + 2 ELSE pageCount
        /\ sessions' = Append(sessions, [id |-> termSessionCounter', page |-> pg])
        /\ activeSessionId' = termSessionCounter'
        /\ currentPage' = pg
  /\ UNCHANGED <<dom, page, harvester, relay, history, ipc, bridge, client, widget>>

\* switchSession(sessionId), called with the id of a listed session (the
\* session picker, Ctrl+Tab)
switchSession ==
  /\ \E i \in DOMAIN sessions :
       /\ activeSessionId' = sessions[i].id
       /\ currentPage' = sessions[i].page
  /\ UNCHANGED <<sessions, pageCount, termSessionCounter>>
  /\ UNCHANGED <<dom, page, harvester, relay, history, ipc, bridge, client, widget>>

\* killSession(sessionId), called with the id of a listed session (the
\* session picker, the dismiss button of its terminal)
killSession ==
  /\ \E i \in DOMAIN sessions :
       LET sessionId == sessions[i].id
           rest == SelectSeq(sessions, LAMBDA x : x.id # sessionId)
       IN /\ sessions' = rest
          /\ activeSessionId' =
               IF activeSessionId = sessionId
                 THEN IF Len(rest) > 0 THEN rest[Len(rest)].id ELSE 0
                 ELSE activeSessionId
  /\ UNCHANGED <<pageCount, termSessionCounter, currentPage>>
  /\ UNCHANGED <<dom, page, harvester, relay, history, ipc, bridge, client, widget>>

\* clearWorkspace(), which returns at once unless the socket is open
clearWorkspace ==
  /\ ws = "OPEN"
  /\ sessions' = <<>>
  /\ activeSessionId' = 0
  /\ UNCHANGED <<pageCount, termSessionCounter, currentPage>>
  /\ UNCHANGED <<dom, page, harvester, relay, history, ipc, bridge, client, widget>>

\* onCanvasScroll() at scrollTop = k half pages, between 0 and the last page
onCanvasScroll ==
  /\ \E k \in 0..(2 * (pageCount - 1)) :
       /\ currentPage' = (k + 1) \div 2
       /\ pageCount' = IF k + 3 > 2 * pageCount THEN pageCount + 1 ELSE pageCount
       /\ pageCount' <= MaxPages
       /\ activeSessionId' = IF sessionForPage(sessions, currentPage') # 0
                                THEN sessionForPage(sessions, currentPage')
                                ELSE activeSessionId
  /\ UNCHANGED <<sessions, termSessionCounter>>
  /\ UNCHANGED <<dom, page, harvester, relay, history, ipc, bridge, client, widget>>

InitOverlay == Boot /\ others = {} /\ IpcAbsent /\ createWS /\ WindowIdle

\* the operations of the page while its socket opens and closes (of the
\* socket they read isOpen() only, so its reconnects are left to SpecWS)
NextOverlay ==
  \/ spawnSession
  \/ switchSession
  \/ killSession
  \/ clearWorkspace
  \/ onCanvasScroll
  \/ onopen
  \/ onclose

SpecOverlay == InitOverlay /\ [][NextOverlay]_vars

\* ------------------------------------------------------------------------
\* The WhatsApp dashboard widget (WhatsAppWidget.svelte): onWaMessage keeps
\* a list of chats, the newest record of each, and the messages of the
\* selected chat.  A field a record lacks is "" (0 for unread_count), which
\* `||' takes as false like undefined; the timestamp, copied with the text,
\* is left out.
\* ------------------------------------------------------------------------
MaxWaRecords == 3

MaxBatch == 2

\* the records the Brain broadcasts: of a group chat by two senders, of
\* direct chats without a chat name, and one with neither chat nor contact
WaRecords ==
  { [chat |-> "g", contact |-> "a", text |-> "x", message_id |-> 1, unread_count |-> 2],
    [chat |-> "g", contact |-> "b", text |-> "y", message_id |-> 2, unread_count |-> 0],
    [chat |-> "",  contact |-> "a", text |-> "x", message_id |-> 3, unread_count |-> 0],
    [chat |-> "",  contact |-> "a", text |-> "y", message_id |-> 4, unread_count |-> 2],
    [chat |-> "",  contact |-> "b", text |-> "y", message_id |-> 5, unread_count |-> 0],
    [chat |-> "",  contact |-> "",  text |-> "x", message_id |-> 6, unread_count |-> 0] }

WaBatches == UNION {[1..n -> WaRecords] : n \in 1..MaxBatch}

\* a || b, of numbers
Or(a, b) == IF a = 0 THEN b ELSE a

\* m.chat || m.contact
chatKeyOf(m) == IF m.chat = "" THEN m.contact ELSE m.chat

\* the first index of cs whose entry has the chat key, 0 if there is none
IndexOfChat(cs, chatKey) ==
  LET hit == {c \in DOMAIN cs : cs[c].chat = chatKey}
  IN IF hit = {} THEN 0 ELSE CHOOSE c \in hit : \A d \in hit : c <= d

\* an iteration of the batch loop that looks for an entry whose contact is
\* the chat key
mergeRecord_ByContact(st, m, vw, sel) ==
  LET chatKey == chatKeyOf(m)
      hit == {c \in DOMAIN st.chats : st.chats[c].contact = chatKey}
      c == IF hit = {} THEN 0 ELSE CHOOSE x \in hit : \A d \in hit : x <= d
      merged ==
        IF c # 0
          THEN [st.chats EXCEPT ![c] =
                  [@ EXCEPT !.text = m.text, !.contact = m.contact,
                            !.unread_count = Or(m.unread_count, Or(@, 0))]]
          ELSE << [chat |-> chatKey, contact |-> m.contact, text |-> m.text,
                   message_id |-> m.message_id,
                   unread_count |-> Or(m.unread_count, 0)] >> \o st.chats
      shown == vw = "messages" /\ (sel = "" \/ sel = chatKey)
  IN [chats |-> merged,
      newMessages |-> IF shown
                        THEN Append(st.newMessages,
                                    [chat |-> chatKey, contact |-> m.contact,
                                     text |-> m.text, message_id |-> m.message_id])
                        ELSE st.newMessages]

\* an iteration of the loop of the WHATSAPP_BATCH branch, on chatsCopy and
\* newMessages as the iterations before have left them
mergeRecord(st, m, vw, sel) ==
  LET chatKey == chatKeyOf(m)
      c == IndexOfChat(st.chats, chatKey)
      merged ==
        IF c # 0
          THEN [st.chats EXCEPT ![c] =
                  [@ EXCEPT !.text = m.text, !.contact = m.contact,
                            !.unread_count = Or(m.unread_count, Or(@, 0))]]
          ELSE << [chat |-> chatKey, contact |-> m.contact, text |-> m.text,
                   message_id |-> m.message_id,
                   unread_count |-> Or(m.unread_count, 0)] >> \o st.chats
      shown == vw = "messages" /\ (sel = "" \/ sel = chatKey)
  IN [chats |-> merged,
      newMessages |-> IF shown
                        THEN Append(st.newMessages,
                                    [chat |-> chatKey, contact |-> m.contact,
                                     text |-> m.text, message_id |-> m.message_id])
                        ELSE st.newMessages]

RECURSIVE mergeBatch(_, _, _, _)
mergeBatch(st, batchMsgs, vw, sel) ==
  IF batchMsgs = <<>> THEN st
  ELSE mergeBatch(mergeRecord(st, Head(batchMsgs), vw, sel), Tail(batchMsgs), vw, sel)

\* the number of records of the events handled so far
RECURSIVE RecordsOf(_)
RecordsOf(evs) ==
  IF evs = <<>> THEN 0
  ELSE (IF Head(evs) = 0 THEN 1 ELSE Head(evs)) + RecordsOf(Tail(evs))

\* onWaMessage of a WHATSAPP_BATCH with at least one record (an empty batch
\* returns at once)
WhatsAppBatch ==
  /\ \E batchMsgs \in WaBatches :
       /\ RecordsOf(delivered) + Len(batchMsgs) <= MaxWaRecords
       /\ delivered' = Append(delivered, Len(batchMsgs))
       /\ \E st \in {mergeBatch([chats |-> chats, newMessages |-> <<>>],
                                 batchMsgs, view, selectedChat)} :
            /\ chats' = st.chats
            /\ messages' = messages \o st.newMessages
  /\ loading' = FALSE
  /\ UNCHANGED <<selectedChat, view>>
  /\ UNCHANGED <<dom, page, harvester, relay, history, ipc, bridge, client, overlay>>

\* onWaMessage of a WHATSAPP_MESSAGE
WhatsAppMessage ==
  /\ \E msg \in WaRecords :
       LET chatKey == chatKeyOf(msg)
           newMsg == [chat |-> chatKey, contact |-> msg.contact, text |-> msg.text,
                      message_id |-> msg.message_id,
                      unread_count |-> Or(msg.unread_count, 0)]
           found == IndexOfChat(chats, chatKey) # 0
           mapped == [c \in DOMAIN chats |->
                        IF chats[c].chat = chatKey
                          THEN [chats[c] EXCEPT !.text = msg.text, !.contact = msg.contact,
                                                !.unread_count = Or(msg.unread_count, 0)]
                          ELSE chats[c]]
       IN /\ RecordsOf(delivered) < MaxWaRecords
          /\ delivered' = Append(delivered, 0)
          /\ chats' = IF found THEN mapped ELSE <<newMsg>> \o mapped
          /\ messages' = IF view = "messages" /\ (selectedChat = "" \/ selectedChat = chatKey)
                            THEN Append(messages, newMsg)
                            ELSE messages
  /\ UNCHANGED <<selectedChat, view, loading>>
  /\ UNCHANGED <<dom, page, harvester, relay, history, ipc, bridge, client, overlay>>

\* chat lists with one entry per chat key, as the Brain sends them
WaChatLists ==
  { <<>>,
    << [chat |-> "g", contact |-> "b", text |-> "y", message_id |-> 2, unread_count |-> 1] >>,
    << [chat |-> "a", contact |-> "a", text |-> "x", message_id |-> 3, unread_count |-> 0],
       [chat |-> "g", contact |-> "a", text |-> "x", message_id |-> 1, unread_count |-> 2] >> }

\* the widget, mounted with or without props.filter_contact, after the chat
\* list of the Brain has arrived
InitWidget ==
  /\ Boot /\ others = {} /\ IpcAbsent /\ ClientAbsent /\ OverlayMounted
  /\ chats \in WaChatLists
  /\ messages = <<>>
  /\ selectedChat \in {"", "g"}
  /\ view = IF selectedChat # "" THEN "messages" ELSE "chats"
  /\ loading = TRUE
  /\ delivered = <<>>

NextWidget ==
  \/ WhatsAppBatch
  \/ WhatsAppMessage

SpecWidget == InitWidget /\ [][NextWidget]_vars

\* ------------------------------------------------------------------------
\* Vocabulary of the properties
\* ------------------------------------------------------------------------
Targets == {"openChat", "sidebar"}

SeenSet(target) == IF target = "openChat" THEN seenMessages ELSE seenSidebar

\* the records of a history, in order
Recs(hist) == [k \in DOMAIN hist |-> hist[k].rec]

\* the places of a history where target queued a record with identity id
Emissions(hist, target, id) ==
  {k \in DOMAIN hist : hist[k].target = target /\ hist[k].rec.message_id = id}

\* the entries a step adds to the history
Added == SubSeq(emitted', Len(emitted) + 1, Len(emitted'))

RECURSIVE Concat(_)
Concat(batches) ==
  IF batches = <<>> THEN <<>> ELSE Head(batches) \o Concat(Tail(batches))

FlushTimers(ts) == {t \in ts : t.fn = "flushQueue"}

\* this step runs flushQueue as a timer callback
FlushFires == \E t \in FlushTimers(timers) : t \notin timers'

\* C1: once an id is in a target's SeenSet, no later step (initial scan,
\* interval scan, debounced rescan, in any order) queues another record of
\* that target with that id.
C1_SeenNeverReemitted ==
  [][\A target \in Targets : \A id \in SeenSet(target) :
       Emissions(emitted', target, id) = Emissions(emitted, target, id)]_vars

\* a scan of the open chat ran while an element recorded by an earlier scan
\* was still in the page: two records of the target whose positions do not
\* increase cannot come from one scan
C1_Witness ==
  \E k, l \in DOMAIN emitted :
    /\ k < l
    /\ emitted[k].target = "openChat" /\ emitted[l].target = "openChat"
    /\ emitted[l].pos <= emitted[k].pos
    /\ \E i \in DOMAIN msgs : msgs[i].eid = emitted[k].el

\* C2: a scan run again on the unchanged page right after a first pass adds
\* nothing: queue, SeenSets, flush timer and timers stay as the first pass
\* left them.
C2_ScanIdempotent ==
  LET open1 == scanOpenChat(Now, header, msgs)
      side1 == scanSidebar(Now, rows, others)
  IN /\ scanOpenChat(open1, header, msgs) = open1
     /\ scanSidebar(side1, rows, others) = side1

\* the first pass of both scans has queued records from the page as it is,
\* the flush timer is pending, and a second pass finds nothing to add
C2_Witness ==
  /\ \E k, l \in DOMAIN emitted :
       /\ emitted[k].target = "openChat" /\ emitted[l].target = "sidebar"
       /\ Len(emitted) - Len(messageQueue) < Min(k, l)
       /\ emitted[k].pos + 1 \in DOMAIN msgs
       /\ msgs[emitted[k].pos + 1].eid = emitted[k].el
       /\ emitted[l].pos + 1 \in DOMAIN rows
  /\ flushTimer # 0
  /\ scanOpenChat(Now, header, msgs) = Now
  /\ scanSidebar(Now, rows, others) = Now
  /\ ChatNames[header] # <<>>

\* the places of the history where message element e produced a record
ElemRecords(e) == {k \in DOMAIN emitted : emitted[k].target = "openChat" /\ emitted[k].el = e}

\* the open-chat scan has nothing left to add on the page as it is
Covered == scanOpenChat(Now, header, msgs) = Now

\* another element of the page, or of an earlier record, carries m's data-id
SharesDataId(m) ==
  /\ MsgFacts[m.k].id # <<>>
  /\ \/ \E j \in DOMAIN msgs :
          msgs[j].eid # m.eid /\ MsgFacts[msgs[j].k].id = MsgFacts[m.k].id
     \/ \E k \in DOMAIN emitted :
          /\ emitted[k].target = "openChat" /\ emitted[k].el # m.eid
          /\ emitted[k].rec.message_id = MsgFacts[m.k].id

\* C3 as stated: a message element (its text and data-id never change in this
\* model) yields exactly one record per chat over any number of scans, also
\* when other message elements are added or removed around it: never two,
\* and one as soon as a scan has covered it in the chat of its records.
C3_OneRecordPerElement ==
  LET chatName == ChatNames[header]
  IN /\ \A e \in 1..nextEl : \A k, l \in ElemRecords(e) :
          emitted[k].rec.chat = emitted[l].rec.chat => k = l
     /\ \A i \in DOMAIN msgs :
          ( /\ chatName # <<>>
            /\ MsgFacts[msgs[i].k].text # <<>>
            /\ ~SharesDataId(msgs[i])
            /\ \A k \in ElemRecords(msgs[i].eid) : emitted[k].rec.chat = chatName
            /\ Covered )
          => ElemRecords(msgs[i].eid) # {}

\* C3 amended: an element yields one record per identity it takes.  With a
\* native identity that is one record, whatever is added or removed around
\* it.  A derived identity holds the chat name and the element's index among
\* the div.message-in elements: the element yields one record per (chat,
\* index) it is scanned at, so it is emitted again when elements added or
\* removed before it shift its index.  Once a scan has covered the page,
\* exactly one record carries the identity the element has there (its own,
\* or that of an element that had the same identity before).
C3_OneRecordPerIdentity ==
  LET chatName == ChatNames[header]
  IN /\ \A e \in 1..nextEl : \A k, l \in ElemRecords(e) :
          \/ k = l
          \/ /\ MsgFacts[emitted[k].k].id = <<>>
             /\ <<emitted[k].rec.chat, emitted[k].pos>> # <<emitted[l].rec.chat, emitted[l].pos>>
     /\ \A i \in DOMAIN msgs :
          ( /\ chatName # <<>>
            /\ MsgFacts[msgs[i].k].text # <<>>
            /\ Covered )
          => Cardinality(Emissions(emitted, "openChat",
                                   messageId(msgs[i].k, chatName, i - 1))) = 1

\* an element with a native identity was recorded at index 0, then an element
\* was inserted before it and recorded by a later scan: the first element,
\* now at index 1, still has its one record
C3_Witness ==
  /\ Len(msgs) = 2
  /\ MsgFacts[msgs[2].k].id # <<>>
  /\ \E k \in ElemRecords(msgs[2].eid), l \in ElemRecords(msgs[1].eid) :
       emitted[k].pos = 0 /\ emitted[l].pos = 0 /\ k < l
  /\ Covered

\* the records queued so far that no batch has carried to the relay
Unrelayed == SubSeq(Recs(emitted), Len(Concat(relayed)) + 1, Len(emitted))

IsSidebarRecord(r) == "unread_count" \in DOMAIN r

\* C4: the first record queued on an empty queue arms one flush timer;
\* records queued before it fires arm nothing and send nothing; when it
\* fires, the relay gets one call holding exactly the records queued since
\* the last flush; the relay gets no other batch call.
C4_OneBatchPerWindow ==
  [][ /\ (Len(emitted') > Len(emitted) /\ messageQueue # <<>>)
           => /\ FlushTimers(timers') = FlushTimers(timers)
              /\ flushTimer' = flushTimer
              /\ relayed' = relayed
      /\ (Len(emitted') > Len(emitted) /\ messageQueue = <<>>)
           => /\ Cardinality(FlushTimers(timers')) = 1
              /\ relayed' = relayed
      /\ FlushFires
           => /\ Unrelayed # <<>>
              /\ relayed' = Append(relayed, Unrelayed)
      /\ relayed' # relayed => FlushFires ]_vars

\* a batch of two records, one of each target, has reached the relay
C4_Witness ==
  \E b \in DOMAIN relayed :
    /\ Len(relayed[b]) >= 2
    /\ \E i, j \in DOMAIN relayed[b] :
         IsSidebarRecord(relayed[b][i]) /\ ~IsSidebarRecord(relayed[b][j])

\* C5: whenever a flush timer is pending, and so may fire, the queue is
\* non-empty.
C5_TimerOnlyOverRecords == FlushTimers(timers) # {} => messageQueue # <<>>

\* after an earlier flush, a flush timer is pending again and free to fire
C5_Witness ==
  /\ relayed # <<>>
  /\ FlushTimers(timers) # {}
  /\ TaskMayRun

\* C6: at most one flush timer is pending.
C6_OneFlushTimer == Cardinality(FlushTimers(timers)) <= 1

\* records of both targets wait in the queue under the one pending timer
C6_Witness ==
  /\ \E i, j \in DOMAIN messageQueue :
       IsSidebarRecord(messageQueue[i]) /\ ~IsSidebarRecord(messageQueue[j])
  /\ Cardinality(FlushTimers(timers)) = 1
  /\ flushTimer # 0

\* C7: every batch handed to the relay holds at least one record.
C7_NoEmptyBatch == \A b \in DOMAIN relayed : relayed[b] # <<>>

\* two batches have been handed to the relay
C7_Witness == Len(relayed) >= 2

\* C8: the batches handed to the relay so far, followed by the queue, are
\* the records queued so far, in order: none dropped, none sent twice.
C8_BatchesThenQueueIsHistory == Concat(relayed) \o messageQueue = Recs(emitted)

\* a batch has been flushed and further records wait in the queue
C8_Witness == relayed # <<>> /\ messageQueue # <<>> /\ Len(emitted) >= 3

\* C9: the records a step queues for one target are those of candidates in
\* increasing document position of the page, appended to the queue in that
\* order; a flush hands over the queue in the order it was appended.
C9_ScanOrderKept ==
  [][ /\ SubSeq(emitted', 1, Len(emitted)) = emitted
      /\ \A k, l \in DOMAIN Added :
           (k < l /\ Added[k].target = Added[l].target) => Added[k].pos < Added[l].pos
      /\ \A k \in DOMAIN Added :
           IF Added[k].target = "openChat"
             THEN /\ Added[k].pos + 1 \in DOMAIN msgs
                  /\ msgs[Added[k].pos + 1] = [eid |-> Added[k].el, k |-> Added[k].k]
             ELSE /\ Added[k].pos + 1 \in DOMAIN rows
                  /\ rows[Added[k].pos + 1] = Added[k].k
      /\ IF FlushFires
           THEN /\ Len(relayed') = Len(relayed) + 1
                /\ relayed'[Len(relayed')] = messageQueue
           ELSE messageQueue' = messageQueue \o Recs(Added) ]_vars

\* a batch that reached the relay lists two open-chat records of one scan,
\* the one of the earlier element first
C9_Witness ==
  \E b \in DOMAIN relayed : \E k \in DOMAIN emitted :
    /\ k + 1 \in DOMAIN emitted
    /\ emitted[k].target = "openChat" /\ emitted[k + 1].target = "openChat"
    /\ emitted[k].pos < emitted[k + 1].pos
    /\ \E i \in DOMAIN relayed[b] :
         /\ i + 1 \in DOMAIN relayed[b]
         /\ relayed[b][i] = emitted[k].rec
         /\ relayed[b][i + 1] = emitted[k + 1].rec

\* the harvester has given up waiting for the page
TimedOut == ~observerStarted /\ retryCount > MAX_RETRIES

Timeouts == {k \in DOMAIN statuses : statuses[k] = "timeout"}

\* C10: unless a readiness marker appears, the harvester gives up in the end;
\* when it has, it has probed MAX_RETRIES times and emitted one 'timeout',
\* its last status, no timer or listener of it is left, it has scanned
\* nothing, and from then on it probes, queues and emits nothing.
C10_TimeoutAfterMaxRetries ==
  /\ <>(loaded \/ TimedOut)
  /\ [](IF TimedOut
          THEN /\ probes = MAX_RETRIES
               /\ Cardinality(Timeouts) = 1
               /\ statuses[Len(statuses)] = "timeout"
               /\ timers = {}
               /\ ~dclListener
               /\ emitted = <<>>
          ELSE Timeouts = {} /\ probes <= MAX_RETRIES)
  /\ [][TimedOut => /\ TimedOut'
                     /\ UNCHANGED <<harvester, relay, history, dclListener>>]_vars

\* the harvester has given up on a page that showed its QR code meanwhile
C10_Witness ==
  /\ TimedOut
  /\ probes = MAX_RETRIES
  /\ \E k \in DOMAIN statuses : statuses[k] = "waiting_for_qr"

\* a readiness marker is in the document
MarkerPresent ==
  \/ "pane-side" \in others
  \/ \E i \in DOMAIN rows : RowKinds[rows[i]].ak8j
  \/ "chat-list" \in others
  \/ msgs # <<>>
  \/ "message-out" \in others

\* C11: every probe made while one of the five readiness markers is in the
\* document makes the harvester Active and leaves no further probe
\* scheduled (stated of the IPC monitor).
C11_AnyMarkerEndsPolling ==
  [][(ipcRetryCount' = ipcRetryCount + 1 /\ ipcRetryCount' <= MAX_RETRIES /\ MarkerPresent)
      => (ipcObserverStarted' /\ "waitForWhatsApp" \notin ipcTimers')]_vars

\* the pending timeouts armed by the observer callback
DebounceTimers(ts) == {t \in ts : t.fn = "scanOpenChat" /\ t.kind = "timeout"}

\* this step delivers the queued mutation records to the observer callback
BatchDelivered == mutQueue # "none" /\ mutQueue' = "none"

UnseenMessages ==
  LET chatName == ChatNames[header]
  IN IF chatName = <<>> THEN {}
     ELSE {i \in DOMAIN msgs :
             /\ MsgFacts[msgs[i].k].text # <<>>
             /\ messageId(msgs[i].k, chatName, i - 1) \notin seenMessages}

\* the sidebar rows of the scan target with a contact, a preview and an
\* unseen identity
UnseenRows ==
  LET items == sidebarItems(rows, others)
  IN {i \in DOMAIN items :
        /\ RowFacts[items[i].k].contact # <<>>
        /\ RowFacts[items[i].k].preview # <<>>
        /\ RowFacts[items[i].k].key \notin seenSidebar}

ByClass == {i \in 1..Len(rows) : RowKinds[rows[i]].ak8j}

ByRole ==
  {i \in 1..Len(rows) :
     \/ "pane-side" \in others /\ RowKinds[rows[i]].inPane
                               /\ RowKinds[rows[i]].role \in {"listitem", "row"}
     \/ RowKinds[rows[i]].cellFrame}

ByTabindex ==
  {i \in 1..Len(rows) :
     "pane-side" \in others /\ RowKinds[rows[i]].inPane /\ RowKinds[rows[i]].tabindex}

Strategies == <<ByClass, ByRole, ByTabindex>>

\* the matches of the first strategy, in the fixed order, that has any
FirstMatch ==
  LET hit == {n \in 1..Len(Strategies) : Strategies[n] # {}}
  IN IF hit = {} THEN {}
     ELSE Strategies[CHOOSE n \in hit : \A o \in hit : n <= o]

\* the row elements the chain hands to the loop of scanSidebar
Resolved == {sidebarItems(rows, others)[j].pos + 1 : j \in 1..Len(sidebarItems(rows, others))}

\* C14: the fallback chain yields the matches of the first strategy that has
\* any, each once and in document order, and nothing when no strategy has a
\* match; the records of a sidebar scan come from these elements only.
C14_FirstMatchingStrategy ==
  LET items == sidebarItems(rows, others)
  IN /\ Resolved = FirstMatch
     /\ Len(items) = Cardinality(FirstMatch)
     /\ \A j \in 1..(Len(items) - 1) : items[j].pos < items[j + 1].pos
     /\ \A e \in 1..Len(emitted) :
          emitted[e].target = "sidebar" => emitted[e].pos + 1 \in FirstMatch

\* strategy A has 0 matches, B has 3, C has 5, and the scan has run over B's
C14_Witness ==
  /\ observerStarted
  /\ Cardinality(ByClass) = 0
  /\ Cardinality(ByRole) = 3
  /\ Cardinality(ByTabindex) = 5
  /\ Cardinality(Resolved) = 3
  /\ \E e \in 1..Len(emitted) : emitted[e].target = "sidebar"

\* the page holds three row elements of one kind (same title, same preview,
\* same unread badge), all of them candidates of the scan with a contact and
\* a preview to extract
ThreeIdenticalRows ==
  /\ Len(rows) = 3
  /\ \A i \in 1..3 : rows[i] = rows[1]
  /\ Resolved = {1, 2, 3}
  /\ RowFacts[rows[1]].contact # <<>>
  /\ RowFacts[rows[1]].preview # <<>>

\* C15: the first sidebar scan (that of startObserver) over three identical
\* rows leaves three records in the queue, one for each row.
C15_OneRecordPerRow ==
  [][(~observerStarted /\ observerStarted' /\ ThreeIdenticalRows)
      => Len(messageQueue') = 3]_vars

\* the batches whose delivery has failed
FailedBatches == {o.batch : o \in {u \in outcomes : ~u.ok}}

\* everything handed to the relay or waiting in the queue, in order
Outgoing == Concat(relayed) \o messageQueue

\* C16: when the delivery of a batch fails, the queue, the flush timer, the
\* other timers, the SeenSets and the calls made to the relay are left as
\* they were; the records of a failed batch are in no other batch and not in
\* the queue, then or later.
C16_FailedBatchDropped ==
  [][/\ outcomes' # outcomes
         => UNCHANGED <<messageQueue, flushTimer, timers, seenMessages, seenSidebar,
                        relayed, emitted>>
     /\ \A b \in FailedBatches' : \A i \in DOMAIN relayed'[b] :
          Cardinality({n \in DOMAIN Outgoing' : Outgoing'[n] = relayed'[b][i]}) = 1]_vars

\* the delivery of a batch has failed and a later batch has been handed to
\* the relay
C16_Witness ==
  \E b \in FailedBatches : b < Len(relayed)

\* C17: every selector the poll callback receives, valid or not, is
\* answered by one QueryResult, sent in the same step: a result list for a
\* valid selector, count -1 with an error for an invalid one; no QueryResult
\* is sent otherwise; the step leaves the timers, the queue, the flush timer
\* and the SeenSets as they were.
C17_OneResultPerSelector ==
  [][/\ drained' # drained
         => /\ Len(drained') = Len(drained) + 1
            /\ queryResults' # queryResults
            /\ UNCHANGED <<timers, observerStarted, messageQueue, flushTimer,
                           seenMessages, seenSidebar, relayed, emitted>>
     /\ queryResults' # queryResults
         => /\ drained' # drained
            /\ Len(queryResults') = Len(queryResults) + 1
            /\ SubSeq(queryResults', 1, Len(queryResults)) = queryResults
            /\ LET sel == drained'[Len(drained')]
                   res == queryResults'[Len(queryResults')]
               IN IF validSelector(sel)
                    THEN res.count >= 0 /\ ~res.error
                    ELSE res = [count |-> -1, results |-> <<>>, error |-> TRUE]
     /\ Len(queryResults') = Len(drained')]_vars

\* an invalid and a valid selector have been answered, and the scan
\* intervals and the records in the queue are still there
C17_Witness ==
  /\ \E n \in DOMAIN drained : ~validSelector(drained[n]) /\ queryResults[n].error
  /\ \E n \in DOMAIN drained : validSelector(drained[n]) /\ queryResults[n].count > 0
  /\ \E t \in timers : t.fn = "scanSidebar"
  /\ \E t \in timers : t.fn = "scanOpenChat"
  /\ messageQueue # <<>>

\* C18: the QueryResult of a valid selector carries the number of all
\* elements that match it when the callback runs as count and the
\* descriptors of the first min(count, 20) of them, in document order; a poll that finds no selector pending sends
\* no QueryResult.
C18_CountAndCappedResults ==
  [][/\ (drained' # drained /\ validSelector(drained'[Len(drained')]))
         => LET els == querySelectorAll(drained'[Len(drained')])
                res == queryResults'[Len(queryResults')]
            IN /\ res.count = Len(els)
               /\ Len(res.results) = Min(Len(els), 20)
               /\ \A i \in DOMAIN res.results :
                    /\ res.results[i].row = els[i].row
                    /\ res.results[i].span = els[i].span
     /\ (pollsInFlight' < pollsInFlight /\ drained' = drained)
         => queryResults' = queryResults]_vars

\* a selector with more than 20 matches has been answered
C18_Witness ==
  \E n \in DOMAIN queryResults :
    /\ queryResults[n].count > 20
    /\ Len(queryResults[n].results) = 20

\* node is the snapshot of element el at this depth: it is no deeper than 6,
\* has no more children than the cap of its depth, and so for its children;
\* it carries the truncation marker exactly when it is at a depth below
\* `markedBelow' and its element has more children than the cap
RECURSIVE TreeBounded(_, _, _, _)
TreeBounded(node, el, depth, markedBelow) ==
  /\ depth <= 6
  /\ Len(node.children) <= maxChildrenAt(depth)
  /\ (node.truncated # 0) <=> (depth < markedBelow /\ childCount(el) > maxChildrenAt(depth))
  /\ node.truncated # 0 => node.truncated = childCount(el)
  /\ \A c \in DOMAIN node.children :
       TreeBounded(node.children[c], childAt(el, c), depth + 1, markedBelow)

\* C19, as claimed: no node of the snapshot is deeper than 6, a node has no
\* more children than the cap of its depth, and it carries the truncation
\* marker exactly when its element has more children than that cap.
C19_SnapshotBounded ==
  snapshot # <<>> =>
    TreeBounded(snapshot[1].snapshot, [spine |-> TRUE, d |-> 0], 0, 7)

\* C19, amended: ... and it carries the truncation marker exactly when it is
\* above depth 6 and its element has more children than that cap; a node at
\* depth 6 has neither children nor marker, whatever its element holds.
C19_SnapshotBoundedAboveSix ==
  snapshot # <<>> =>
    TreeBounded(snapshot[1].snapshot, [spine |-> TRUE, d |-> 0], 0, 6)

\* the snapshot of a tree of depth 7 whose inner elements have more than
\* 20 children: every node above depth 6 is cut and marked, the spine is
\* followed down to depth 6, where the node has no children and no marker
C19_Witness ==
  /\ snapshot # <<>>
  /\ appTree.depth >= 7
  /\ appTree.width > 20
  /\ ~appTree.last
  /\ snapshot[1].snapshot.truncated = appTree.width
  /\ Len(snapshot[1].snapshot.children) = 20
  /\ Len(snapshot[1].snapshot.children[1].children[1].children) = 10
  /\ snapshot[1].snapshot.children[1].children[1].children[1].children[1].children[1].children[1].children = <<>>
  /\ snapshot[1].snapshot.children[1].children[1].children[1].children[1].children[1].children[1].truncated = 0

\* the harvester polls for the readiness markers
Polling == ~observerStarted /\ retryCount <= MAX_RETRIES

LastStatus == statuses[Len(statuses)]

\* a step that makes the harvester Active, and one that makes it give up
BecomesActive == ~observerStarted /\ observerStarted'

BecomesTimedOut == ~TimedOut /\ TimedOut'

\* C20, as claimed: a status event is emitted only in a step that changes
\* the state of the harvester, 'connected' from Polling to Active and
\* 'timeout' on entering TimedOut; a step from Polling to Polling emits
\* none; a step that emits a status without starting the scans leaves the
\* queue, its timer and the batches as they were.
C20_StatusOnlyAtTransitions ==
  [][/\ statuses' # statuses
         => /\ Len(statuses') = Len(statuses) + 1
            /\ \/ BecomesActive /\ LastStatus' = "connected"
               \/ BecomesTimedOut /\ LastStatus' = "timeout"
     /\ (Polling /\ Polling') => statuses' = statuses
     /\ (statuses' # statuses /\ ~BecomesActive)
         => UNCHANGED <<messageQueue, flushTimer, relayed, emitted>>]_vars

\* C20, amended: a status event is emitted in a step from Polling to Active
\* ('connected'), in the step that enters TimedOut ('timeout'), and in a
\* step from Polling to Polling that is the 10th, 20th, ... probe and finds
\* no readiness marker but the QR code ('waiting_for_qr'); each of these
\* steps emits its one status and no other step emits any; a step that
\* emits a status without starting the scans leaves the queue, its timer and
\* the batches as they were.
C20_StatusAtTransitionsAndQrWait ==
  [][/\ statuses' # statuses
         => /\ Len(statuses') = Len(statuses) + 1
            /\ SubSeq(statuses', 1, Len(statuses)) = statuses
            /\ \/ BecomesActive /\ LastStatus' = "connected"
               \/ BecomesTimedOut /\ LastStatus' = "timeout"
               \/ /\ Polling /\ Polling'
                  /\ retryCount' = retryCount + 1
                  /\ retryCount' % 10 = 0
                  /\ qrVisible /\ ~loaded
                  /\ LastStatus' = "waiting_for_qr"
     /\ (BecomesActive \/ BecomesTimedOut) => statuses' # statuses
     /\ (Polling /\ Polling' /\ retryCount' # retryCount /\ retryCount' % 10 = 0 /\ qrVisible)
         => statuses' # statuses
     /\ (statuses' # statuses /\ ~BecomesActive)
         => UNCHANGED <<messageQueue, flushTimer, relayed, emitted>>]_vars

\* the harvester has reported the QR code while it polled, then became
\* Active and queued a record in its first scan
C20_Witness ==
  /\ observerStarted
  /\ Len(statuses) >= 2
  /\ statuses[1] = "waiting_for_qr"
  /\ LastStatus = "connected"
  /\ messageQueue # <<>>

C22_SilentAfterTimeout ==
  /\ [](TimedOut => /\ observers = 0
                     /\ timers = {}
                     /\ ~dclListener
                     /\ mutQueue = "none"
                     /\ messageQueue = <<>>
                     /\ flushTimer = 0
                     /\ seenMessages = {} /\ seenSidebar = {}
                     /\ relayed = <<>>)
  /\ [][TimedOut => /\ TimedOut'
                     /\ UNCHANGED <<harvester, relay, history, dclListener, mutQueue>>]_vars

\* after the harvester has given up the page has drawn a chat: a sidebar
\* row that a scan would queue is in the document
C22_Witness ==
  /\ TimedOut
  /\ UnseenRows # {}
  /\ changes = MaxChanges

\* C24: the reconnect delay of the WebSocket client is always between 2 s
\* and 30 s: it starts at 2 s, every close event multiplies it by 1.5 up to
\* the cap of 30 s, and every open event resets it to 2 s; while the client
\* is not closed every close event schedules exactly one reconnect (and none
\* once it is closed), so that at most one reconnect is ever pending.
C24_ReconnectDelay ==
  /\ [](/\ retryMs >= ms(2000) /\ retryMs <= ms(30000)
        /\ opens = 0 /\ closes = 0 => retryMs = ms(2000)
        /\ reconnectTimers <= 1)
  /\ [][opens' = opens + 1 => retryMs' = ms(2000)]_vars
  /\ [][closes' = closes + 1 =>
          /\ \/ 2 * retryMs' = 3 * retryMs /\ retryMs' <= ms(30000)
             \/ retryMs' = ms(30000) /\ 3 * retryMs > 2 * ms(30000)
          /\ opens' = opens
          /\ reconnectTimers' = reconnectTimers + (IF closed THEN 0 ELSE 1)]_vars
  /\ [][reconnectTimers' > reconnectTimers => closes' = closes + 1]_vars

\* the delay has been reset by an open, has grown to the cap again, and a
\* reconnect is pending
C24_Witness ==
  /\ opens >= 1
  /\ retryMs = ms(30000)
  /\ reconnectTimers = 1
  /\ ~closed

\* C25: every record of the open chat carries as message_id the data-id of
\* its element if the element has one, else the data-id of the closest
\* ancestor that has one, else 'p_' + chat name + '_' + the element's index
\* among the div.message-in elements + '_' + the first 20 characters of its
\* text.  An element with neither of the two data-ids nor a text yields no
\* record and no id: the SeenSet holds the ids of the records and nothing
\* else, and the queue holds records only.
C25_MessageIdentity ==
  /\ \A n \in DOMAIN emitted :
       emitted[n].target = "openChat" =>
         LET e == emitted[n]
             el == MsgKinds[e.k]
             text == extractText(el)
         IN /\ e.rec.message_id =
                 IF el.dataId # <<>> THEN el.dataId
                 ELSE IF el.ancId # <<>> THEN el.ancId
                 ELSE <<"p", "_">> \o e.rec.chat \o <<"_">> \o NumStr(e.pos)
                        \o <<"_">> \o SubSeq(text, 1, Min(20, Len(text)))
            /\ ~(el.dataId = <<>> /\ el.ancId = <<>> /\ text = <<>>)
            /\ e.rec.chat # <<>>
  /\ seenMessages = {emitted[n].rec.message_id :
                       n \in {m \in DOMAIN emitted : emitted[m].target = "openChat"}}
  /\ \A q \in DOMAIN messageQueue : \E n \in DOMAIN emitted : emitted[n].rec = messageQueue[q]

\* a scan has gone over an element without any id or text, then over one with
\* the data-id of an ancestor and one with a derived id, and has recorded the
\* last two
C25_Witness ==
  /\ Len(msgs) = 3
  /\ msgs[1].k = "blank" /\ msgs[2].k = "anc" /\ msgs[3].k = "derA"
  /\ \E n, m \in DOMAIN emitted :
       /\ emitted[n].el = 2 /\ emitted[n].rec.message_id = MsgKinds["anc"].ancId
       /\ emitted[m].el = 3 /\ emitted[m].pos = 2
  /\ Cardinality(seenMessages) = 2

\* this step runs the callback of the debounce timeout
DebounceFires ==
  /\ ~BatchDelivered
  /\ DebounceTimers(timers) # {}
  /\ DebounceTimers(timers') = {}

\* C26 as stated: when the debounced rescan fires it applies every ScanTarget:
\* the step leaves no open-chat message and no sidebar row of the page with
\* text and an unseen identity.
C26_RescanAppliesEveryTarget ==
  [][DebounceFires => (UnseenMessages' = {} /\ UnseenRows' = {})]_vars

\* C26 amended: when the debounced rescan fires it applies the open-chat
\* target alone: the step leaves no open-chat message with text and an
\* unseen identity, every record it queues is an open-chat record, and the
\* sidebar SeenSet is as before (unseen sidebar rows stay unseen until the
\* sidebar interval fires).
C26_RescanAppliesOpenChat ==
  [][DebounceFires =>
       /\ UnseenMessages' = {}
       /\ \A k \in DOMAIN Added : Added[k].target = "openChat"
       /\ seenSidebar' = seenSidebar]_vars

\* the last debounce timeout has fired and its rescan has queued the one
\* record there is, of the open chat, while a sidebar row is still unseen
C26_Witness ==
  /\ debounce # 0
  /\ DebounceTimers(timers) = {}
  /\ Len(emitted) = 1
  /\ emitted[1].target = "openChat"
  /\ UnseenMessages = {}
  /\ UnseenRows # {}

\* the batches handed to the relay whose fetch has not settled
InFlight == DOMAIN relayed \ {o.batch : o \in outcomes}

\* C27: no scan and no flush waits for the outcome of an earlier relay call:
\* while the delivery of a batch is in flight and no observer callback is
\* due, every armed scan timer and the flush timer, if armed, can fire (so
\* that scans append records, arm a new flush timer, and a further batch is
\* handed to the relay before the first has settled).
C27_NoWaitForRelay ==
  (InFlight # {} /\ TaskMayRun) =>
    /\ FlushTimers(timers) # {} => ENABLED FlushTimerFires
    /\ DebounceTimers(timers) # {} => ENABLED DebouncedScan
    /\ observerStarted => (ENABLED IntervalScanOpenChat /\ ENABLED IntervalScanSidebar)

\* two batches are in flight: while the first was, a scan has queued a record
\* and armed the flush timer again, and that timer has fired and handed the
\* second batch to the relay
C27_Witness ==
  /\ InFlight = {1, 2}
  /\ relayed[1] # <<>> /\ relayed[2] # <<>>
  /\ outcomes = {}

\* this step is one of a debug path: a snapshot is sent or its failure is
\* caught, a poll for a selector is sent, or its response is handled
DebugStep ==
  \/ snapshot' # snapshot
  \/ warned' # warned
  \/ pollsInFlight' # pollsInFlight
  \/ drained' # drained
  \/ queryResults' # queryResults

\* C28: the debug paths only read the state of the harvester: a step that
\* sends a debug snapshot with its scan report, catches a failure of the
\* snapshot, sends a poll or answers a selector query leaves the SeenSets,
\* the queue, the flush timer, all timers, the observer, the records made so
\* far and the calls made to the relay as they were, whatever scans and
\* flushes are pending; and once a failure of the snapshot has been caught,
\* the scan intervals are still armed and can fire.
C28_DebugPathsReadOnly ==
  /\ [][DebugStep => UNCHANGED <<dom, page, harvester, relay, history>>]_vars
  /\ []((warned /\ TaskMayRun) =>
          /\ \E t \in timers : t.fn = "scanSidebar" /\ t.kind = "interval"
          /\ \E t \in timers : t.fn = "scanOpenChat" /\ t.kind = "interval"
          /\ ENABLED IntervalScanSidebar
          /\ ENABLED IntervalScanOpenChat)

\* a snapshot has failed, another has been sent and a selector query has
\* been answered while records wait in the queue for the flush timer
C28_Witness ==
  /\ warned
  /\ snapshot # <<>>
  /\ queryResults # <<>>
  /\ messageQueue # <<>>
  /\ FlushTimers(timers) # {}
  /\ seenSidebar # {}

\* the ids of the records a history holds for a target
IdsOf(hist, target) ==
  {hist[k].rec.message_id : k \in {n \in DOMAIN hist : hist[n].target = target}}

\* C29: deduplication is per ScanTarget.  Each SeenSet holds the ids of the
\* records of its own target and nothing else; a step that queues records of
\* one target only leaves the SeenSet of the other as it was; and an id in
\* one SeenSet does not suppress a record of the other target: the scans of
\* startObserver leave no message and no row with text and an id that is not
\* in its own SeenSet, and so does the debounced open-chat scan for the
\* messages, whatever the other SeenSet holds.
C29_DedupPerTarget ==
  /\ [](/\ seenMessages = IdsOf(emitted, "openChat")
        /\ seenSidebar = IdsOf(emitted, "sidebar"))
  /\ [][/\ IdsOf(Added, "sidebar") = {} => seenSidebar' = seenSidebar
        /\ IdsOf(Added, "openChat") = {} => seenMessages' = seenMessages]_vars
  /\ [][BecomesActive => (UnseenMessages' = {} /\ UnseenRows' = {})]_vars
  /\ [][DebounceFires => UnseenMessages' = {}]_vars

\* a message and a sidebar row with the same id have both been recorded
C29_Witness ==
  \E id \in seenMessages \cap seenSidebar :
    /\ Emissions(emitted, "openChat", id) # {}
    /\ Emissions(emitted, "sidebar", id) # {}

\* C30: between callbacks the flush timer is pending exactly when the queue
\* holds a record: flushTimer names a pending flushQueue timeout if and only
\* if the queue is non-empty, and no other flushQueue timeout is pending.
C30_TimerIffQueue ==
  /\ (flushTimer # 0) <=> (messageQueue # <<>>)
  /\ FlushTimers(timers) = {t \in timers : t.fn = "flushQueue" /\ t.id = flushTimer}
  /\ (FlushTimers(timers) # {}) <=> (messageQueue # <<>>)

\* a flush has emptied the queue and no flush timer is pending; a scan has
\* since found nothing to add
C30_Witness ==
  /\ relayed # <<>>
  /\ messageQueue = <<>>
  /\ flushTimer = 0
  /\ FlushTimers(timers) = {}
  /\ Len(Concat(relayed)) = Len(emitted)
  /\ Len(emitted) >= 2

\* C31: a pending flush timer stays as it is until it fires: no step that
\* appends records re-arms, replaces or cancels it; and, timers firing
\* fairly, a non-empty queue is always emptied again, its records handed to
\* the relay by the timer the first of them armed.
C31_FlushNotPostponed ==
  /\ [][(FlushTimers(timers) # {} /\ ~FlushFires)
          => (FlushTimers(timers') = FlushTimers(timers) /\ flushTimer' = flushTimer)]_vars
  /\ [][FlushFires => (messageQueue' = <<>> /\ relayed' = Append(relayed, messageQueue))]_vars
  /\ (messageQueue # <<>>) ~> (messageQueue = <<>>)

\* after an earlier flush two records wait under the timer the first of
\* them armed
C31_Witness ==
  /\ relayed # <<>>
  /\ Len(messageQueue) >= 2
  /\ Cardinality(FlushTimers(timers)) = 1
  /\ TaskMayRun

\* the positions of the 'connected' events among the reported statuses
Connecteds == {k \in DOMAIN statuses : statuses[k] = "connected"}

\* the interval timers that run fn
Intervals(fn) == {t \in timers : t.fn = fn /\ t.kind = "interval"}

\* C32: in one session 'connected' is reported at most once and never
\* together with 'timeout'; the mutation observer and the interval timer of
\* each scan are set up at most once, in the one step that starts the
\* observer, whatever the order of boot, DOMContentLoaded and the probes.
C32_ConnectedOnce ==
  /\ [](/\ Cardinality(Connecteds) <= 1
        /\ ~(Connecteds # {} /\ Timeouts # {})
        /\ observers <= 1
        /\ observerStarted <=> observers = 1
        /\ observerStarted <=> Connecteds # {}
        /\ \A fn \in {"scanSidebar", "scanOpenChat"} :
             Cardinality(Intervals(fn)) = observers)
  /\ [][(observers' # observers \/ Connecteds' # Connecteds)
          => (BecomesActive /\ observers = 0 /\ observers' = 1)]_vars

\* the harvester booted on a loading page, probed in vain after
\* DOMContentLoaded, reported the QR code and then started its observer
C32_Witness ==
  /\ observerStarted
  /\ observers = 1
  /\ retryCount > 10
  /\ statuses[1] = "waiting_for_qr"
  /\ Cardinality(Connecteds) = 1
  /\ \A fn \in {"scanSidebar", "scanOpenChat"} : Cardinality(Intervals(fn)) = 1

\* the places of a history where target queued a record
QueuedBy(hist, target) == {k \in DOMAIN hist : hist[k].target = target}

\* C33: for each of the two targets, an id is in the SeenSet exactly if the
\* target has queued one record with that id in this session, and no id has
\* been queued twice; so the number of records a target has queued is the
\* size of its SeenSet.
C33_SeenSetCountsRecords ==
  \A target \in Targets :
    /\ IdsOf(emitted, target) = SeenSet(target)
    /\ \A id \in SeenSet(target) : Cardinality(Emissions(emitted, target, id)) = 1
    /\ Cardinality(QueuedBy(emitted, target)) = Cardinality(SeenSet(target))

\* both targets have queued a record, the batches have gone out, and the
\* message and the row already seen are still in the document
C33_Witness ==
  /\ seenMessages # {}
  /\ seenSidebar # {}
  /\ relayed # <<>>
  /\ messageQueue = <<>>
  /\ msgs # <<>> /\ UnseenMessages = {}
  /\ rows # <<>> /\ UnseenRows = {}

\* getCurrentChatName() finds no name on the page
NoChatName == ChatNames[header] = <<>>

\* C34: while no chat name can be resolved an open-chat scan changes
\* nothing, whatever message elements the page holds: the scan returns the
\* state it was given; the step of the debounced scan leaves both SeenSets,
\* the queue, the flush timer and the batches as they were; and the first
\* scans of startObserver add nothing to the message SeenSet and queue
\* sidebar records only.
C34_NoChatNameNoScan ==
  /\ [](NoChatName => scanOpenChat(Now, header, msgs) = Now)
  /\ [][(NoChatName /\ DebounceFires)
          => /\ UNCHANGED <<seenMessages, seenSidebar, messageQueue, flushTimer,
                            relayed, emitted>>
             /\ FlushTimers(timers') = FlushTimers(timers)]_vars
  /\ [][(NoChatName /\ BecomesActive)
          => /\ seenMessages' = seenMessages
             /\ \A k \in DOMAIN Added : Added[k].target = "sidebar"]_vars

\* the debounced scan has run on a page with two messages with text and no
\* header, and nothing has been queued
C34_Witness ==
  /\ observerStarted
  /\ NoChatName
  /\ Cardinality({i \in DOMAIN msgs : MsgFacts[msgs[i].k].text # <<>>}) >= 2
  /\ debounce # 0
  /\ DebounceTimers(timers) = {}
  /\ mutQueue = "none"
  /\ seenMessages = {}
  /\ emitted = <<>>

\* the keys of the rows a sidebar scan of this page would queue
UnseenKeys ==
  LET items == sidebarItems(rows, others)
  IN {RowFacts[items[i].k].key : i \in UnseenRows}

\* the sidebar records among the entries a step adds to the history
SidebarAdded == SelectSeq(Added, LAMBDA e : e.target = "sidebar")

\* C35: a sidebar scan queues a record for a row exactly if the row has a
\* contact and a preview and its key, contact and first 50 characters of the
\* preview, is not in the sidebar SeenSet when the row is reached: a scan of
\* the page queues one record for each key of such a row, taken from such a
\* row, and adds these keys to the SeenSet; a step that queues sidebar
\* records queues them for all these keys and no other; and no two sidebar
\* records of a session have the same contact and previews that agree on
\* their first 50 characters.
C35_SidebarKeyRule ==
  /\ [](LET out == scanSidebar(Now, rows, others)
            new == SubSeq(out.emitted, Len(emitted) + 1, Len(out.emitted))
            items == sidebarItems(rows, others)
        IN /\ {new[k].rec.message_id : k \in DOMAIN new} = UnseenKeys
           /\ Len(new) = Cardinality(UnseenKeys)
           /\ out.seenSidebar = seenSidebar \cup UnseenKeys
           /\ \A k \in DOMAIN new :
                /\ new[k].target = "sidebar"
                /\ \E i \in UnseenRows :
                     /\ items[i].pos = new[k].pos
                     /\ RowFacts[items[i].k].key = new[k].rec.message_id
                     /\ RowFacts[items[i].k].preview = new[k].rec.text)
  /\ [][SidebarAdded # <<>>
          => /\ {SidebarAdded[k].rec.message_id : k \in DOMAIN SidebarAdded} = UnseenKeys
             /\ Len(SidebarAdded) = Cardinality(UnseenKeys)
             /\ seenSidebar' = seenSidebar \cup UnseenKeys]_vars
  /\ [](\A k1, k2 \in QueuedBy(emitted, "sidebar") :
          (/\ emitted[k1].rec.contact = emitted[k2].rec.contact
           /\ substring(emitted[k1].rec.text, 0, 50) = substring(emitted[k2].rec.text, 0, 50))
            => k1 = k2)

\* the preview of the row has changed three times: after a long preview and
\* another one, each queued once, the row shows a preview that differs from
\* the first after its 50th character, and a scan would queue nothing
C35_Witness ==
  /\ observerStarted
  /\ changes = 3
  /\ rows = <<"longB">>
  /\ Len(emitted) = 2
  /\ emitted[1].rec.text = RowFacts["longA"].preview
  /\ emitted[2].rec.text = sBye
  /\ Cardinality(seenSidebar) = 2
  /\ UnseenRows = {}
  /\ mutQueue = "none"

\* C36: the sidebar count of the last debug scan report is the number of
\* candidate rows the fallback chain of scanSidebar resolves on the page
\* (which has not changed since the report was built).
C36_ReportCountsScanRows ==
  snapshot # <<>>
    => snapshot[1].scan_report.sidebarCount = Len(sidebarItems(rows, others))

\* C37: once close() has been called on the WebSocket client it stays
\* closed and no connection is made or opened any more: the socket is
\* closing or closed and never connecting again, no open event follows, a
\* reconnect timeout that was pending does nothing but go away when it
\* fires, and the close event of the socket schedules no reconnect.
C37_NoReconnectAfterClose ==
  /\ [](closed => ws \in {"CLOSING", "CLOSED"})
  /\ [][closed => /\ closed'
                  /\ ws' # "CONNECTING" /\ ws' # "OPEN"
                  /\ opens' = opens
                  /\ reconnectTimers' <= reconnectTimers]_vars
  /\ [][(closed /\ reconnectTimers' < reconnectTimers)
          => UNCHANGED <<ws, closed, retryMs, connected, opens, closes>>]_vars
  /\ [][(closed /\ closes' # closes)
          => (ws = "CLOSING" /\ ws' = "CLOSED" /\ reconnectTimers' = reconnectTimers)]_vars

\* close() was called after the socket had been open and had closed, while
\* the reconnect timeout was pending
C37_Witness ==
  /\ closed
  /\ ws = "CLOSED"
  /\ reconnectTimers = 1
  /\ opens >= 1

\* C38: in the overlay page no two terminal sessions occupy the same page
\* or have the same id, no session occupies page 0, the page of every
\* session is below pageCount, and activeSessionId is null or the id of a
\* session of the list, after any sequence of spawnSession, killSession,
\* clearWorkspace, switchSession and scroll events.
C38_SessionsOnOwnPages ==
  /\ \A i, j \in DOMAIN sessions :
       (sessions[i].page = sessions[j].page \/ sessions[i].id = sessions[j].id) => i = j
  /\ \A i \in DOMAIN sessions : sessions[i].page >= 1 /\ sessions[i].page < pageCount
  /\ activeSessionId = 0 \/ \E i \in DOMAIN sessions : sessions[i].id = activeSessionId

\* the first of three sessions has been killed and its page given to a new
\* one; a scroll has made the session of page 2 the active one and has added
\* a page
C38_Witness ==
  /\ Len(sessions) = 2
  /\ termSessionCounter = 3
  /\ sessions[2].id = 3 /\ sessions[2].page = 1
  /\ sessions[1].id = 2 /\ sessions[1].page = 2
  /\ activeSessionId = 2
  /\ currentPage = 2
  /\ pageCount > 3

\* the chat keys of a chat list, in order
ChatKeys(cs) == [c \in DOMAIN cs |-> cs[c].chat]

\* C39: the chat list of the widget has at most one entry per chat key
\* after any sequence of WHATSAPP_BATCH and WHATSAPP_MESSAGE events; an event
\* leaves the entries it finds in their order, each with its chat key, puts
\* the new entries in front of them, and adds at most one entry per record.
C39_OneEntryPerChat ==
  /\ [](\A c, d \in DOMAIN chats : chats[c].chat = chats[d].chat => c = d)
  /\ [][delivered' # delivered =>
          LET new == Len(chats') - Len(chats)
              event == delivered'[Len(delivered')]
          IN /\ new >= 0
             /\ new <= (IF event = 0 THEN 1 ELSE event)
             /\ ChatKeys(SubSeq(chats', new + 1, Len(chats'))) = ChatKeys(chats)
             /\ \A c \in 1..new : \A d \in DOMAIN chats : chats'[c].chat # chats[d].chat]_vars

\* one batch of two records of a chat that was not in the list has left one
\* entry of it, in front of the entry that was there
C39_Witness ==
  /\ delivered = <<2>>
  /\ Len(chats) = 2
  /\ chats[1].chat = "a" /\ chats[1].message_id = 3 /\ chats[1].text = "y"
  /\ chats[1].unread_count = 2
  /\ chats[2].chat = "g"

====
